---- MODULE Spec2Model ----
(***************************************************************************)
(* Model of the Tui-browser reconciliation core (src/src/merger.py) and of *)
(* the JSON-constrained advisor call it depends on (src/src/llm.py).       *)
(*                                                                         *)
(* Texts are sequences of string chunks; the chunk "\n" is the line break. *)
(* A mapping (a Python dict) is a function from a finite set of integers   *)
(* to ElementMapping records.  A placement set (a Python dict, which keeps *)
(* insertion order) is a sequence of [idx, dec] entries with distinct idx. *)
(***************************************************************************)
EXTENDS Integers, Sequences, FiniteSets, TLC

\* ------------------------------------------------------------------ bounds

\* Longest snapshot element list drawn as input (padding apart).
MaxElems == 2

\* Largest number of keys in the JSON object the advisor answers with.
MaxResp == 1

\* Largest number of entries of a placement set handed to inject_elements
\* when it is exercised on its own.
MaxPlace == 2

\* Largest overall timeout ParallelFetcher.fetch is called with (in ticks).
MaxTimeout == 2

\* The tick at which the clock of a fetch stops advancing.
MaxTime == 6

\* Longest browsing history the command loop is followed to.
MaxHistory == 4

\* --------------------------------------------------------- program constants

\* merger.py:418  pw_result.elements[:50]
FallbackLimit == 50

\* merger.py:427  el.text[:50]
FallbackLabelLimit == 50

\* merger.py:120  len(el.text) < 3
SmallButtonLen == 3

\* server.py:354  queue.Queue(maxsize=10)
QueueMax == 10

VARIABLES
    pc,            \* position of the merge call
    lynx_result,   \* LynxResult argument of merge
    pw_result,     \* PlaywrightResult argument of merge
    use_llm,       \* IntelligentMerger.use_llm
    llm_out,       \* what the text-generation capability answered (if asked)
    llm_in,        \* the elements place_elements was called with (if called)
    llm_calls,     \* number of generate_json calls made by this merge
    stages,        \* pipeline stages this merge has executed
    base_mapping,  \* merge's local base_mapping
    missing,       \* merge's local missing
    placements,    \* merge's local placements (after place_elements)
    result,        \* the MergedResult returned
    fn_args,       \* arguments of a function exercised on its own
    fn_ret,        \* its return value
    now,           \* time passed since ParallelFetcher.fetch was called
    legs,          \* the two fetches submitted to the executor
    results,       \* fetch's local results
    wait_from,     \* when the future.result call in progress began
    expired,       \* the legs whose future.result call raised TimeoutError
    history,       \* TUIBrowser.history
    history_index, \* TUIBrowser.history_index
    page_url,      \* self.page.url of the persistent browser page
    shown,         \* run's local result: the page the loop displays
    trail,         \* the last two commands the loop handled
    sse_clients,   \* server.py: the list of the queues of the stream clients
    sse_lock,      \* server.py: who holds the lock
    queues,        \* the client_queue of each stream
    chat_pc,       \* position of each request thread of the chat server
    broadcasts     \* locals of each broadcast_message call

mergeVars == <<lynx_result, pw_result, use_llm, llm_out, llm_in, llm_calls, stages,
               base_mapping, missing, placements, result>>

fetchVars == <<now, legs, results, wait_from, expired>>

browseVars == <<history, history_index, page_url, shown, trail>>

chatVars == <<sse_clients, sse_lock, queues, chat_pc, broadcasts>>

vars == <<pc, lynx_result, pw_result, use_llm, llm_out, llm_in, llm_calls, stages,
          base_mapping, missing, placements, result, fn_args, fn_ret,
          now, legs, results, wait_from, expired,
          history, history_index, page_url, shown, trail,
          sse_clients, sse_lock, queues, chat_pc, broadcasts>>

\* ------------------------------------------------------------ basic values

\* Python's None where a string is expected (PlaywrightElement.href).
None == "None"

NL == "\n"

EmptyMapping == [n \in {} |-> 0]

Max(S) == CHOOSE x \in S : \A y \in S : y <= x

Min2(a, b) == IF a <= b THEN a ELSE b

\* str.split('\n'): always at least one line.
RECURSIVE SplitLines(_)
SplitLines(s) ==
    IF \A i \in 1..Len(s) : s[i] # NL
    THEN <<s>>
    ELSE LET i == CHOOSE j \in 1..Len(s) :
                      s[j] = NL /\ \A k \in 1..(j-1) : s[k] # NL
         IN <<SubSeq(s, 1, i-1)>> \o SplitLines(SubSeq(s, i+1, Len(s)))

\* '\n'.join(lines)
RECURSIVE JoinLines(_)
JoinLines(ls) ==
    IF Len(ls) = 0 THEN <<>>
    ELSE IF Len(ls) = 1 THEN ls[1]
    ELSE ls[1] \o <<NL>> \o JoinLines(Tail(ls))

\* --------------------------------------------------- strings, by their facts

\* str.lower() on the strings the model draws.
Lower(s) ==
    CASE s = "Submit" -> "submit"
      [] s = "Home"   -> "home"
      [] s = "Menu"   -> "menu"
      [] s = "Go"     -> "go"
      [] s = "Pick"   -> "pick"
      [] OTHER        -> s

\* len(s) for the labels the model draws.
StrLen(s) ==
    CASE s = ""       -> 0
      [] s = "Go"     -> 2
      [] s = "Home"   -> 4
      [] s = "Menu"   -> 4
      [] s = "Pick"   -> 4
      [] s = "Submit" -> 6
      [] OTHER        -> 8

\* The pairs <<x, s>> with x a substring of s (Python's `x in s`), for the
\* terms the code looks for and the lower-cased strings the model draws.
Occurrences ==
    { <<"submit", "submit">>, <<"nav", "nav > a">>, <<"menu", "menu">>,
      <<"footer", "footer > a">> }

Occurs(x, s) == <<x, s>> \in Occurrences

\* s[:n] on the labels the model draws (all of them shorter than n here).
Prefix(s, n) == IF StrLen(s) <= n THEN s ELSE "<cut>"

\* ------------------------------------------------------------ input values

\* Snapshot elements without their extraction index.
LinkU1      == [type |-> "a",      text |-> "Home",   href |-> "u1", selector |-> "#main",   visible |-> TRUE]
NavLinkU2   == [type |-> "a",      text |-> "Menu",   href |-> "u2", selector |-> "nav > a", visible |-> TRUE]
SubmitBtn   == [type |-> "button", text |-> "Submit", href |-> None, selector |-> "#main",   visible |-> TRUE]
HiddenBtn   == [type |-> "button", text |-> "Go",     href |-> None, selector |-> "#main",   visible |-> FALSE]
BlankInput  == [type |-> "input",  text |-> "",       href |-> None, selector |-> "#main",   visible |-> TRUE]
PickSelect  == [type |-> "select", text |-> "Pick",   href |-> None, selector |-> "#main",   visible |-> TRUE]

ElementKinds == {LinkU1, NavLinkU2, SubmitBtn, HiddenBtn, BlankInput, PickSelect}

\* Further snapshot elements, drawn where a function is exercised on its own:
\* without a label, hidden, of kind textarea, with a navigation term in the
\* label only, with a footer term in the selector.
BlankBtn    == [type |-> "button",   text |-> "",       href |-> None, selector |-> "#main", visible |-> TRUE]
HiddenInput == [type |-> "input",    text |-> "",       href |-> None, selector |-> "#main", visible |-> FALSE]
NoteArea    == [type |-> "textarea", text |-> "Pick",   href |-> None, selector |-> "#main", visible |-> TRUE]
MenuBtn     == [type |-> "button",   text |-> "Menu",   href |-> None, selector |-> "#main", visible |-> TRUE]
FooterLink  == [type |-> "a",        text |-> "Home",   href |-> "u9", selector |-> "footer > a", visible |-> TRUE]

\* fetcher.py:264-269: an element's index is its position in document order.
WithIndex(protos) ==
    [i \in 1..Len(protos) |->
        [index |-> i - 1, type |-> protos[i].type, text |-> protos[i].text,
         href |-> protos[i].href, selector |-> protos[i].selector,
         visible |-> protos[i].visible]]

SeqsUpTo(S, n) == UNION { [1..k -> S] : k \in 0..n }

ElementLists == { WithIndex(p) : p \in SeqsUpTo(ElementKinds, MaxElems) }

\* Element lists long enough to reach the fallback's limit: a run of equal
\* elements, all visible or all hidden, followed by a drawn list.
PaddedElementLists ==
    { WithIndex([i \in 1..n |-> IF v THEN LinkU1 ELSE HiddenBtn] \o p) :
        n \in {FallbackLimit - 1, FallbackLimit}, v \in BOOLEAN,
        p \in SeqsUpTo({LinkU1, SubmitBtn, HiddenBtn}, 1) }

Texts == { <<"a">>, <<"a", NL, "b">> }

LynxLinkLists == { <<>>, << <<7, "u1">>, <<8, "u9">> >> }

Contents == { <<"<p>", "hi", "</p>", "there">> }

\* ------------------------------------------------------------ Preprocessor

\* Mutant: the scan going on to the last matching element.
RECURSIVE MatchByUrlLastHit(_, _)
MatchByUrlLastHit(lynx_links, pw_elements) ==
    IF lynx_links = <<>> THEN EmptyMapping
    ELSE LET n    == Len(lynx_links)
             rest == MatchByUrlLastHit(SubSeq(lynx_links, 1, n - 1), pw_elements)
             num  == lynx_links[n][1]
             url  == lynx_links[n][2]
             hits == { i \in 1..Len(pw_elements) :
                         pw_elements[i].type = "a" /\ pw_elements[i].href = url }
         IN IF hits = {} THEN rest
            ELSE LET el == pw_elements[CHOOSE i \in hits : \A j \in hits : i >= j]
                     entry == [number |-> num, type |-> "link",
                               text |-> IF el.text # "" THEN el.text ELSE url,
                               selector |-> el.selector, url |-> url,
                               action |-> "navigate", el |-> el.index]
                 IN [k \in DOMAIN rest \cup {num} |->
                        IF k = num THEN entry ELSE rest[k]]

\* Mutant: a number without a matching element kept, under its url.
RECURSIVE MatchByUrlKeepsAll(_, _)
MatchByUrlKeepsAll(lynx_links, pw_elements) ==
    IF lynx_links = <<>> THEN EmptyMapping
    ELSE LET n    == Len(lynx_links)
             rest == MatchByUrlKeepsAll(SubSeq(lynx_links, 1, n - 1), pw_elements)
             num  == lynx_links[n][1]
             url  == lynx_links[n][2]
             hits == { i \in 1..Len(pw_elements) :
                         pw_elements[i].type = "a" /\ pw_elements[i].href = url }
             entry == IF hits = {}
                      THEN [number |-> num, type |-> "link", text |-> url,
                            selector |-> None, url |-> url,
                            action |-> "navigate", el |-> 0 - 1]
                      ELSE LET el == pw_elements[CHOOSE i \in hits : \A j \in hits : i <= j]
                           IN [number |-> num, type |-> "link",
                               text |-> IF el.text # "" THEN el.text ELSE url,
                               selector |-> el.selector, url |-> url,
                               action |-> "navigate", el |-> el.index]
         IN [k \in DOMAIN rest \cup {num} |-> IF k = num THEN entry ELSE rest[k]]

\* merger.py:34-58
RECURSIVE MatchByUrl(_, _)
MatchByUrl(lynx_links, pw_elements) ==
    IF lynx_links = <<>> THEN EmptyMapping
    ELSE LET n    == Len(lynx_links)
             rest == MatchByUrl(SubSeq(lynx_links, 1, n - 1), pw_elements)
             num  == lynx_links[n][1]
             url  == lynx_links[n][2]
             hits == { i \in 1..Len(pw_elements) :
                         pw_elements[i].type = "a" /\ pw_elements[i].href = url }
         IN IF hits = {} THEN rest
            ELSE LET el == pw_elements[CHOOSE i \in hits : \A j \in hits : i <= j]
                     entry == [number |-> num, type |-> "link",
                               text |-> IF el.text # "" THEN el.text ELSE url,
                               selector |-> el.selector, url |-> url,
                               action |-> "navigate", el |-> el.index]
                 IN [k \in DOMAIN rest \cup {num} |->
                        IF k = num THEN entry ELSE rest[k]]

\* merger.py:68
MappedHrefs(mapping) ==
    { mapping[k].url : k \in { j \in DOMAIN mapping : mapping[j].url # None /\ mapping[j].url # "" } }

\* Mutant: the visibility test left out.
IsMissingHiddenToo(el, mapped_hrefs) ==
    /\ ~(el.text = "" /\ el.type # "input")
    /\ \/ el.type \in {"button", "input", "textarea", "select"}
       \/ el.type = "a" /\ el.href \notin mapped_hrefs

\* merger.py:71-86: whether find_missing_elements keeps el.
IsMissing(el, mapped_hrefs) ==
    /\ el.visible
    /\ ~(el.text = "" /\ el.type # "input")
    /\ \/ el.type \in {"button", "input", "textarea", "select"}
       \/ el.type = "a" /\ el.href \notin mapped_hrefs

\* merger.py:60-88
FindMissingElements(pw_elements, mapping) ==
    LET Keep(el) == IsMissing(el, MappedHrefs(mapping))
    IN SelectSeq(pw_elements, Keep)

\* merger.py:98-129: the bucket of one element.
Category(el) ==
    LET selector_lower == Lower(el.selector)
    IN IF \E x \in {"ad", "track", "analytics", "pixel"} : Occurs(x, selector_lower)
       THEN "ignore"
       ELSE IF \E x \in {"nav", "header", "menu"} : Occurs(x, selector_lower)
       THEN "navigation"
       ELSE IF \E x \in {"footer", "copyright"} : Occurs(x, selector_lower)
       THEN "secondary"
       ELSE IF el.text = "" /\ el.type # "input"
       THEN "ignore"
       ELSE IF el.type = "button" /\ StrLen(el.text) < SmallButtonLen
       THEN "unknown"
       ELSE IF el.type \in {"input", "textarea", "select"}
       THEN "primary"
       ELSE "unknown"

\* merger.py:90-131: categories[el.index], a later element overwriting an
\* earlier one of the same index.
CategorizeElements(elements) ==
    [ i \in { elements[k].index : k \in 1..Len(elements) } |->
        Category(elements[Max({ k \in 1..Len(elements) : elements[k].index = i })]) ]

\* merger.py:362 / 370: the elements of one bucket, in order.
Bucket(elements, categories, name) ==
    LET In(el) == el.index \in DOMAIN categories /\ categories[el.index] = name
    IN SelectSeq(elements, In)

\* ------------------------------------------------- advisor (LLMPlacer, llm.py)

\* One value of the advisor's JSON object (a "decision").  isdict is FALSE for
\* a value that is no JSON object (true, 3, "x", [..]).  show is the truth
\* value of decision.get('show', False).  line.kind is "int", "null" (a value
\* Python cannot order against an int: null) or "absent".  position and format
\* are given or absent.
Decision(isdict, show, lkind, lv, position, fgiven, ftmpl) ==
    [isdict |-> isdict, show |-> show, line |-> [kind |-> lkind, v |-> lv],
     position |-> position, format |-> [given |-> fgiven, tmpl |-> ftmpl]]

ShowBefore0  == Decision(TRUE, TRUE, "int", 0, "before", TRUE, <<"[", "N", ":", "x", "]">>)
ShowBeyond   == Decision(TRUE, TRUE, "int", 9, "absent", FALSE, <<>>)
ShowFalse    == Decision(TRUE, FALSE, "absent", 0, "absent", FALSE, <<>>)
NotADict     == Decision(FALSE, FALSE, "absent", 0, "absent", FALSE, <<>>)
ShowNullLine == Decision(TRUE, TRUE, "null", 0, "after", TRUE, <<"[", "N", "]">>)
ShowFarBelow == Decision(TRUE, TRUE, "int", -9, "after", TRUE, <<"[", "N", "]">>)
ShowLast     == Decision(TRUE, TRUE, "int", -1, "after", TRUE, <<"[", "N", "]">>)
ShowAfter1   == Decision(TRUE, TRUE, "int", 1, "after", TRUE, <<"[", "N", ":", "y", "]">>)
ShowNoLine   == Decision(TRUE, TRUE, "absent", 0, "before", FALSE, <<>>)

\* A decision whose template is "[N:Next]": the label begins with the letter
\* N, which stands as a chunk of its own.
ShowNext     == Decision(TRUE, TRUE, "int", 0, "after", TRUE, <<"[", "N", ":", "N", "ext", "]">>)

\* The decisions the advisor is drawn to answer with inside a merge.
AdvisorDecisions == {ShowBefore0, ShowBeyond, ShowFalse, NotADict}

\* A key of the advisor's JSON object: "el" stands for a key el_<idx>...,
\* "error" for the key "error", "other" for any other key.
ElKey(i) == [k |-> "el", idx |-> i]
ErrorKey == [k |-> "error", idx |-> 0]
OtherKey == [k |-> "other", idx |-> 0]

\* Mutant: generate_json handing on a failure as it came.
GenerateJsonUncaught(out) == [kind |-> out.kind, items |-> out.items]

\* llm.py:277-309 generate_json, on what the capability answered:
\*   "failed"    generate() returned success=False (unreachable, erroring)
\*   "malformed" text that json.loads rejects
\*   "scalar"    JSON text of a number, true, false or null
\*   "array"     JSON text of a list (or of a string) not holding "error"
\*   "object"    JSON text of an object with the given items
\* The value returned is a JSON value: for the first two, the error object.
GenerateJson(out) ==
    IF out.kind \in {"failed", "malformed"}
    THEN [kind |-> "object", items |-> << [key |-> ErrorKey, dec |-> NotADict] >>]
    ELSE [kind |-> out.kind, items |-> out.items]

\* dict[idx] = dec on an insertion-ordered dict.
DictPut(d, idx, dec) ==
    IF \E i \in 1..Len(d) : d[i].idx = idx
    THEN [i \in 1..Len(d) |-> IF d[i].idx = idx THEN [idx |-> idx, dec |-> dec] ELSE d[i]]
    ELSE Append(d, [idx |-> idx, dec |-> dec])

\* merger.py:195-202
RECURSIVE KeysToIndices(_)
KeysToIndices(items) ==
    IF items = <<>> THEN <<>>
    ELSE LET n    == Len(items)
             rest == KeysToIndices(SubSeq(items, 1, n - 1))
         IN IF items[n].key.k = "el"
            THEN DictPut(rest, items[n].key.idx, items[n].dec)
            ELSE rest

\* merger.py:186-204 place_elements, from generate_json's value on.
\* `"error" in response` raises TypeError on a scalar; response.items()
\* raises AttributeError on a list or a string.
PlaceElements(response) ==
    IF response.kind # "object"
    THEN [raised |-> TRUE, placements |-> <<>>]
    ELSE IF \E i \in 1..Len(response.items) : response.items[i].key.k = "error"
    THEN [raised |-> FALSE, placements |-> <<>>]
    ELSE [raised |-> FALSE, placements |-> KeysToIndices(response.items)]

\* ------------------------------------------------------------------ Formatter

\* merger.py:279  decision.get('format', '[N:button]')
DefaultFormat == <<"[", "N", ":", "button", "]">>

\* merger.py:280  format_str.replace('N', str(next_num)), on chunks.
Marker(tmpl, num) == [i \in 1..Len(tmpl) |-> IF tmpl[i] = "N" THEN ToString(num) ELSE tmpl[i]]

\* merger.py:264/274  decision.get('line', 0)
RequestedLine(dec) == IF dec.line.kind = "absent" THEN [kind |-> "int", v |-> 0] ELSE dec.line

\* Mutant: the action of the degraded fallback, which knows no submit.
InjectActionNoSubmit(element) ==
    IF element.type \in {"input", "textarea"} THEN "fill"
    ELSE IF element.type = "a" THEN "navigate"
    ELSE "click"

\* merger.py:290-294
InjectAction(element) ==
    IF element.type \in {"input", "textarea"} THEN "fill"
    ELSE IF element.type = "button" /\ Occurs("submit", Lower(element.text)) THEN "submit"
    ELSE IF element.type = "a" THEN "navigate"
    ELSE "click"

\* Mutant: numbering carried on from the mapping returned last.
NumberingCarriedOn(base_map) ==
    IF DOMAIN result.mapping = {} THEN 1 ELSE Max(DOMAIN result.mapping) + 1

\* merger.py:256
FirstFreshNumber(base_map) == IF DOMAIN base_map = {} THEN 1 ELSE Max(DOMAIN base_map) + 1

\* Mutant: the sort left out.
SortLeftOut(items) == items

\* merger.py:264  list.sort(key=line, reverse=True): stable, so entries of
\* equal line keep their order.  (Keys are integers here: see SortRaises.)
RECURSIVE SortByLineDesc(_)
SortByLineDesc(items) ==
    IF items = <<>> THEN <<>>
    ELSE LET n      == Len(items)
             sorted == SortByLineDesc(SubSeq(items, 1, n - 1))
             x      == items[n]
             before == { i \in 1..Len(sorted) :
                           RequestedLine(sorted[i].dec).v >= RequestedLine(x.dec).v }
             cut    == IF before = {} THEN 0 ELSE Max(before)
         IN SubSeq(sorted, 1, cut) \o <<x>> \o SubSeq(sorted, cut + 1, Len(sorted))

\* merger.py:264: ordering two keys raises TypeError when one is not a number.
SortRaises(items) ==
    Len(items) >= 2 /\ \E i \in 1..Len(items) : RequestedLine(items[i].dec).kind # "int"

\* Mutant: the marker put on a line of its own next to the target line.
InjectOneOwnLine(st, item, missing_elements) ==
    LET hits == { k \in 1..Len(missing_elements) : missing_elements[k].index = item.idx }
    IN IF st.raised \/ hits = {} THEN st
       ELSE
       LET element  == missing_elements[CHOOSE k \in hits : \A j \in hits : k <= j]
           req      == RequestedLine(item.dec)
           nlines   == Len(st.lines)
           line_num == IF req.v >= nlines THEN nlines - 1 ELSE req.v
           at       == IF line_num < 0 THEN nlines + line_num ELSE line_num
           tmpl     == IF item.dec.format.given THEN item.dec.format.tmpl ELSE DefaultFormat
           marker   == Marker(tmpl, st.next_num)
           entry    == [number |-> st.next_num, type |-> element.type,
                        text |-> element.text, selector |-> element.selector,
                        url |-> element.href, action |-> InjectAction(element),
                        el |-> element.index]
       IN IF req.kind # "int" \/ line_num < 0 - nlines
          THEN [st EXCEPT !.raised = TRUE]
          ELSE [raised   |-> FALSE,
                lines    |-> [st.lines EXCEPT ![at + 1] =
                                 IF item.dec.position = "before"
                                 THEN marker \o <<NL>> \o @
                                 ELSE @ \o <<NL>> \o marker],
                mapping  |-> [n \in DOMAIN st.mapping \cup {st.next_num} |->
                                 IF n = st.next_num THEN entry ELSE st.mapping[n]],
                next_num |-> st.next_num + 1]

\* merger.py:268-305: the loop body for one shown decision, on the loop's
\* state st = [raised, lines, mapping, next_num].
InjectOne(st, item, missing_elements) ==
    LET hits == { k \in 1..Len(missing_elements) : missing_elements[k].index = item.idx }
    IN IF st.raised \/ hits = {} THEN st
       ELSE
       LET element  == missing_elements[CHOOSE k \in hits : \A j \in hits : k <= j]
           req      == RequestedLine(item.dec)
           nlines   == Len(st.lines)
           line_num == IF req.v >= nlines THEN nlines - 1 ELSE req.v
           at       == IF line_num < 0 THEN nlines + line_num ELSE line_num
           tmpl     == IF item.dec.format.given THEN item.dec.format.tmpl ELSE DefaultFormat
           marker   == Marker(tmpl, st.next_num)
           entry    == [number |-> st.next_num, type |-> element.type,
                        text |-> element.text, selector |-> element.selector,
                        url |-> element.href, action |-> InjectAction(element),
                        el |-> element.index]
       IN IF req.kind # "int" \/ line_num < 0 - nlines
          THEN [st EXCEPT !.raised = TRUE]
          ELSE [raised   |-> FALSE,
                lines    |-> [st.lines EXCEPT ![at + 1] =
                                 IF item.dec.position = "before"
                                 THEN marker \o <<" ">> \o @
                                 ELSE @ \o <<" ">> \o marker],
                mapping  |-> [n \in DOMAIN st.mapping \cup {st.next_num} |->
                                 IF n = st.next_num THEN entry ELSE st.mapping[n]],
                next_num |-> st.next_num + 1]

RECURSIVE InjectLoop(_, _, _)
InjectLoop(st, items, missing_elements) ==
    IF items = <<>> THEN st
    ELSE InjectLoop(InjectOne(st, Head(items), missing_elements), Tail(items), missing_elements)

\* Mutant: the show filter left out.
AlwaysShown(p) == TRUE

\* merger.py:262  decision.get('show', False)
IsShown(p) == p.dec.show

\* merger.py:247-307 inject_elements.  decision.get raises AttributeError on
\* a decision that is no JSON object (line 262, for every entry).
InjectElements(lynx_text, missing_elements, placement_set, base_map) ==
    LET items    == SelectSeq(placement_set, IsShown)
        st0      == [raised |-> FALSE, lines |-> SplitLines(lynx_text),
                     mapping |-> base_map, next_num |-> FirstFreshNumber(base_map)]
        failed   == [raised |-> TRUE, text |-> <<>>, mapping |-> EmptyMapping]
    IN IF \E i \in 1..Len(placement_set) : ~placement_set[i].dec.isdict THEN failed
       ELSE IF SortRaises(items) THEN failed
       ELSE LET st == InjectLoop(st0, SortByLineDesc(items), missing_elements)
            IN IF st.raised THEN failed
               ELSE [raised |-> FALSE, text |-> JoinLines(st.lines), mapping |-> st.mapping]

\* ---------------------------------------------------------- IntelligentMerger

MergedResult(text, mapping, success) == [text |-> text, mapping |-> mapping, success |-> success]

NoResult == MergedResult(<<>>, EmptyMapping, FALSE)

\* Mutant: the failure branch returning the fallback's flag.
BothFailedReportsSuccess == MergedResult(<<>>, EmptyMapping, TRUE)

\* merger.py:333-338
BothFailedResult == MergedResult(<<>>, EmptyMapping, FALSE)

\* Mutant: the short-circuit returning a fresh mapping.
ShortCircuitDropsMapping(lynx_text, base_map) == MergedResult(lynx_text, EmptyMapping, TRUE)

\* Mutant: the short-circuit reporting a failure.
ShortCircuitReportsFailure(lynx_text, base_map) == MergedResult(lynx_text, base_map, FALSE)

\* merger.py:352-356
ShortCircuitResult(lynx_text, base_map) == MergedResult(lynx_text, base_map, TRUE)

\* merger.py:404-414, on markup given as chunks: tags are dropped, the words
\* left are joined by single blanks.  The drawn contents are shorter than the
\* 80 columns of one wrapped line.
IsTag(c) == c \in {"<p>", "</p>"}

RECURSIVE JoinWords(_)
JoinWords(ws) ==
    IF Len(ws) = 0 THEN <<>>
    ELSE IF Len(ws) = 1 THEN <<ws[1]>>
    ELSE <<ws[1], " ">> \o JoinWords(Tail(ws))

HtmlToText(content) ==
    LET Word(c) == ~IsTag(c)
    IN JoinWords(SelectSeq(content, Word))

\* merger.py:420-422
FallbackAction(element) ==
    IF element.type \in {"input", "textarea"} THEN "fill"
    ELSE IF element.type = "a" THEN "navigate"
    ELSE "click"

\* Mutant: enumerate without start=1.
FallbackNumberFromZero(i) == i - 1

\* merger.py:418  enumerate(pw_result.elements[:50], start=1): the number of
\* the element at (1-based) position i of the slice.
FallbackNumber(i) == i

\* merger.py:418-419: the positions the loop numbers.
FallbackSlots(elements) ==
    { i \in 1..Min2(Len(elements), FallbackLimit) : elements[i].visible }

\* merger.py:434, for the slots from i on.
RECURSIVE FallbackLines(_, _)
FallbackLines(elements, i) ==
    IF i > Min2(Len(elements), FallbackLimit) THEN <<>>
    ELSE (IF elements[i].visible
          THEN <<NL, "[", ToString(FallbackNumber(i)), "] ",
                 Prefix(elements[i].text, FallbackLabelLimit)>>
          ELSE <<>>) \o FallbackLines(elements, i + 1)

\* merger.py:394-440
PlaywrightOnlyFallback(pw) ==
    LET slots == FallbackSlots(pw.elements)
        entry(i) == [number |-> FallbackNumber(i), type |-> pw.elements[i].type,
                     text |-> Prefix(pw.elements[i].text, FallbackLabelLimit),
                     selector |-> pw.elements[i].selector, url |-> pw.elements[i].href,
                     action |-> FallbackAction(pw.elements[i]),
                     el |-> pw.elements[i].index]
    IN MergedResult(HtmlToText(pw.content) \o FallbackLines(pw.elements, 1),
                    [n \in { FallbackNumber(i) : i \in slots } |->
                        entry(CHOOSE i \in slots : FallbackNumber(i) = n)],
                    TRUE)

\* merger.py:373-378: the decision merge writes for a primary element.
PrimaryDecision(el, lynx_text) ==
    Decision(TRUE, TRUE, "int", Len(SplitLines(lynx_text)) - 1, "after",
             TRUE, <<"[", "N", ":", el.type, "]">>)

\* merger.py:370-378
RECURSIVE AddPrimary(_, _, _)
AddPrimary(placement_set, primary_elements, lynx_text) ==
    IF primary_elements = <<>> THEN placement_set
    ELSE AddPrimary(DictPut(placement_set, Head(primary_elements).index,
                            PrimaryDecision(Head(primary_elements), lynx_text)),
                    Tail(primary_elements), lynx_text)

\* merger.py:362
UnknownElements(missing_elements) ==
    Bucket(missing_elements, CategorizeElements(missing_elements), "unknown")

\* Mutant: the primary bucket never auto-placed.
NoPrimaryElements(missing_elements) == <<>>

\* merger.py:370
PrimaryElements(missing_elements) ==
    Bucket(missing_elements, CategorizeElements(missing_elements), "primary")

\* Mutant: the advisor asked whenever it is enabled.
ConsultedWhenEnabled(enabled, unknown_elements) == enabled

\* merger.py:366
AdvisorConsulted(enabled, unknown_elements) == enabled /\ unknown_elements # <<>>

\* ------------------------------------------------------- inputs of one merge

\* fetcher.py:79-131: a failed text fetch carries no text and no links.
LynxResults ==
    { [text |-> t, links |-> l, success |-> TRUE] : t \in Texts, l \in LynxLinkLists }
    \cup { [text |-> <<>>, links |-> <<>>, success |-> FALSE] }

\* fetcher.py:206-214: a failed snapshot fetch carries no elements, no markup.
SnapshotResults(els) ==
    { [elements |-> e, content |-> c, success |-> TRUE] : e \in els, c \in Contents }
    \cup { [elements |-> <<>>, content |-> <<>>, success |-> FALSE] }

\* The keys an advisor answer is drawn from: el_<i> for each unplaced
\* element, el_<n> for an index that is no unplaced element's, "other".
AdvisorItems(missing_elements, n_elements) ==
    { [key |-> ElKey(i), dec |-> d] :
        i \in { missing_elements[k].index : k \in 1..Len(missing_elements) } \cup {n_elements},
        d \in AdvisorDecisions }
    \cup { [key |-> OtherKey, dec |-> ShowBefore0], [key |-> ErrorKey, dec |-> NotADict] }

AdvisorAnswers(missing_elements, n_elements) ==
    { [kind |-> k, items |-> <<>>] : k \in {"failed", "malformed", "scalar", "array"} }
    \cup { [kind |-> "object", items |-> its] :
             its \in SeqsUpTo(AdvisorItems(missing_elements, n_elements), MaxResp) }

NoAnswer == [kind |-> "none", items |-> <<>>]

\* ------------------------------------------------- ParallelFetcher, values

\* fetcher.py:377-382: the keys of futures, in insertion order.
LegNames == <<"lynx", "playwright">>

\* A leg the executor was not handed.
NotSubmitted == [status |-> "absent", out |-> None, done_at |-> 0, runs |-> 0]

NoLegs == [name \in {"lynx", "playwright"} |-> NotSubmitted]

NoResults == [name \in {} |-> None]

\* ------------------------------------------------------- TUIBrowser, values

\* The addresses a user types or a page leads to.
Urls == {"u1", "u2"}

\* browser.py:163  browser.new_page(): the page before any goto.
BlankPage == "about:blank"

\* Before run has a result.
NothingShown == [url |-> "none", success |-> FALSE]

\* No command handled yet.
NoCommand == [cmd |-> "none", said |-> "none", url |-> "none", success |-> FALSE,
              was |-> "none"]

\* ------------------------------------------- chat server (server.py), values

\* The request threads that post a message (server.py:267, 338).
Posters == {"p1", "p2"}

\* The request threads that serve /api/stream (server.py:342-377).
Streams == {"s1", "s2"}

\* server.py:27  Lock(): nobody holds it.
LockFree == "free"

\* server.py:254-264, 323-335: the message a request broadcasts; what it
\* says plays no part in its delivery.
MessageData == "message"

\* No broadcast_message call in progress.
NoBroadcast == [message |-> "none", at |-> 0]

\* ------------------------------------------------------------- state machine

Init ==
    /\ pc = "idle"
    /\ lynx_result = [text |-> <<>>, links |-> <<>>, success |-> FALSE]
    /\ pw_result = [elements |-> <<>>, content |-> <<>>, success |-> FALSE]
    /\ use_llm = FALSE
    /\ llm_out = NoAnswer
    /\ llm_in = <<>>
    /\ llm_calls = 0
    /\ stages = {}
    /\ base_mapping = EmptyMapping
    /\ missing = <<>>
    /\ placements = <<>>
    /\ result = NoResult
    /\ fn_args = <<>>
    /\ fn_ret = <<>>
    /\ now = 0
    /\ legs = NoLegs
    /\ results = NoResults
    /\ wait_from = 0
    /\ expired = {}
    /\ history = <<>>
    /\ history_index = -1
    /\ page_url = BlankPage
    /\ shown = NothingShown
    /\ trail = <<NoCommand, NoCommand>>
    /\ sse_clients = <<>>
    /\ sse_lock = LockFree
    /\ queues = [s \in Streams |-> <<>>]
    /\ chat_pc = [t \in Posters \cup Streams |-> "idle"]
    /\ broadcasts = [p \in Posters |-> NoBroadcast]

\* merger.py:313-319: a merger is built (use_llm) and merge is called.
MergeCall ==
    /\ pc = "idle"
    /\ \E l \in LynxResults, u \in BOOLEAN :
         \E p \in SnapshotResults(IF l.success THEN ElementLists
                                  ELSE ElementLists \cup PaddedElementLists) :
            /\ lynx_result' = l
            /\ pw_result' = p
            /\ use_llm' = u
    /\ pc' = "start"
    /\ UNCHANGED fetchVars
    /\ UNCHANGED browseVars
    /\ UNCHANGED chatVars
    /\ UNCHANGED <<llm_out, llm_in, llm_calls, stages, base_mapping, missing, placements,
                   result, fn_args, fn_ret>>

\* merger.py:332-338
MergeBothFailed ==
    /\ pc = "start"
    /\ ~lynx_result.success /\ ~pw_result.success
    /\ result' = BothFailedResult
    /\ pc' = "done"
    /\ UNCHANGED fetchVars
    /\ UNCHANGED browseVars
    /\ UNCHANGED chatVars
    /\ UNCHANGED <<lynx_result, pw_result, use_llm, llm_out, llm_in, llm_calls, stages,
                   base_mapping, missing, placements, fn_args, fn_ret>>

\* merger.py:341-342
MergeFallback ==
    /\ pc = "start"
    /\ ~lynx_result.success /\ pw_result.success
    /\ result' = PlaywrightOnlyFallback(pw_result)
    /\ stages' = stages \cup {"fallback"}
    /\ pc' = "done"
    /\ UNCHANGED fetchVars
    /\ UNCHANGED browseVars
    /\ UNCHANGED chatVars
    /\ UNCHANGED <<lynx_result, pw_result, use_llm, llm_out, llm_in, llm_calls,
                   base_mapping, missing, placements, fn_args, fn_ret>>

\* merger.py:345-356: matching, stage A, and the short-circuit return.
MergeShortCircuit ==
    /\ pc = "start"
    /\ lynx_result.success
    /\ LET bm == MatchByUrl(lynx_result.links, pw_result.elements)
           ms == FindMissingElements(pw_result.elements, bm)
       IN /\ ms = <<>>
          /\ base_mapping' = bm
          /\ missing' = ms
          /\ result' = ShortCircuitResult(lynx_result.text, bm)
    /\ stages' = stages \cup {"match", "find_missing"}
    /\ pc' = "done"
    /\ UNCHANGED fetchVars
    /\ UNCHANGED browseVars
    /\ UNCHANGED chatVars
    /\ UNCHANGED <<lynx_result, pw_result, use_llm, llm_out, llm_in, llm_calls,
                   placements, fn_args, fn_ret>>

\* merger.py:345-362: matching, stage A, stage B.
MergeClassify ==
    /\ pc = "start"
    /\ lynx_result.success
    /\ LET bm == MatchByUrl(lynx_result.links, pw_result.elements)
           ms == FindMissingElements(pw_result.elements, bm)
       IN /\ ms # <<>>
          /\ base_mapping' = bm
          /\ missing' = ms
    /\ stages' = stages \cup {"match", "find_missing", "categorize"}
    /\ pc' = "advise"
    /\ UNCHANGED fetchVars
    /\ UNCHANGED browseVars
    /\ UNCHANGED chatVars
    /\ UNCHANGED <<lynx_result, pw_result, use_llm, llm_out, llm_in, llm_calls,
                   placements, result, fn_args, fn_ret>>

\* merger.py:365-367, the advisor not consulted.
AdvisorSkipped ==
    /\ pc = "advise"
    /\ ~AdvisorConsulted(use_llm, UnknownElements(missing))
    /\ placements' = <<>>
    /\ pc' = "inject"
    /\ UNCHANGED fetchVars
    /\ UNCHANGED browseVars
    /\ UNCHANGED chatVars
    /\ UNCHANGED <<lynx_result, pw_result, use_llm, llm_out, llm_in, llm_calls, stages,
                   base_mapping, missing, result, fn_args, fn_ret>>

\* merger.py:367 with merger.py:140-204 and llm.py:277-309: the one advisor
\* call, answered in any of the drawn ways.
AdvisorCalled ==
    /\ pc = "advise"
    /\ AdvisorConsulted(use_llm, UnknownElements(missing))
    /\ \E out \in AdvisorAnswers(missing, Len(pw_result.elements)) :
         LET r == PlaceElements(GenerateJson(out))
         IN /\ llm_out' = out
            /\ llm_in' = UnknownElements(missing)
            /\ placements' = r.placements
            /\ pc' = IF r.raised THEN "raised" ELSE "inject"
    /\ llm_calls' = llm_calls + 1
    /\ stages' = stages \cup {"advisor"}
    /\ UNCHANGED fetchVars
    /\ UNCHANGED browseVars
    /\ UNCHANGED chatVars
    /\ UNCHANGED <<lynx_result, pw_result, use_llm, base_mapping, missing,
                   result, fn_args, fn_ret>>

\* merger.py:369-392: auto-placement of the primary bucket and injection.
MergeInject ==
    /\ pc = "inject"
    /\ LET all == AddPrimary(placements, PrimaryElements(missing), lynx_result.text)
           r   == InjectElements(lynx_result.text, missing, all, base_mapping)
       IN /\ placements' = all
          /\ result' = IF r.raised THEN result ELSE MergedResult(r.text, r.mapping, TRUE)
          /\ pc' = IF r.raised THEN "raised" ELSE "done"
    /\ stages' = stages \cup {"inject"}
    /\ UNCHANGED fetchVars
    /\ UNCHANGED browseVars
    /\ UNCHANGED chatVars
    /\ UNCHANGED <<lynx_result, pw_result, use_llm, llm_out, llm_in, llm_calls,
                   base_mapping, missing, fn_args, fn_ret>>

Next ==
    \/ MergeCall
    \/ MergeBothFailed
    \/ MergeFallback
    \/ MergeShortCircuit
    \/ MergeClassify
    \/ AdvisorSkipped
    \/ AdvisorCalled
    \/ MergeInject

Spec == Init /\ [][Next]_vars

\* ------------------------------------------- inject_elements on its own

\* The decisions a placement set handed to inject_elements is drawn from.
InjectDecisions ==
    {ShowBefore0, ShowAfter1, ShowBeyond, ShowFalse, ShowLast, ShowFarBelow,
     ShowNullLine, ShowNoLine, ShowNext, NotADict}

\* Unplaced-element lists: the second holds no element of index 1 or 2.
InjectMissingLists ==
    { WithIndex(<<SubmitBtn, BlankInput>>), WithIndex(<<NavLinkU2>>),
      WithIndex(<<PickSelect, MenuBtn, NoteArea>>) }

InjectIndices == 0..2

\* Placement sets: insertion-ordered, one entry per index.
InjectPlacementSets ==
    { ps \in SeqsUpTo([idx : InjectIndices, dec : InjectDecisions], MaxPlace) :
        \A i, j \in 1..Len(ps) : i # j => ps[i].idx # ps[j].idx }

InjectBaseMappings ==
    { EmptyMapping,
      MatchByUrl(<< <<7, "u1">> >>, WithIndex(<<LinkU1>>)),
      MatchByUrl(<< <<1, "u1">>, <<2, "u2">> >>, WithIndex(<<LinkU1, NavLinkU2>>)) }

\* Mutant: entries written into the dict that was handed in.
BaseSharedWithResult(base_map, ret) == IF ret.raised THEN base_map ELSE ret.mapping

\* merger.py:266  new_mapping = base_mapping.copy(): the dict the caller
\* handed in, as it stands after the call.
CallerBaseAfter(base_map, ret) == base_map

\* merger.py:247-307: one call of Formatter.inject_elements; base_mapping is
\* the caller's dict after the call.
InjectCall ==
    /\ pc = "idle"
    /\ \E t \in Texts, ms \in InjectMissingLists, ps \in InjectPlacementSets,
          bm \in InjectBaseMappings :
         /\ fn_args' = [text |-> t, missing |-> ms, placements |-> ps, base |-> bm]
         /\ fn_ret' = InjectElements(t, ms, ps, bm)
         /\ base_mapping' = CallerBaseAfter(bm, InjectElements(t, ms, ps, bm))
    /\ pc' = "returned"
    /\ UNCHANGED fetchVars
    /\ UNCHANGED browseVars
    /\ UNCHANGED chatVars
    /\ UNCHANGED <<lynx_result, pw_result, use_llm, llm_out, llm_in, llm_calls, stages,
                   missing, placements, result>>

NextInject == InjectCall

SpecInject == Init /\ [][NextInject]_vars

\* ------------------------------------------------ a second merge call

\* What the first of two merge calls was given and what came of it.
FirstCall(again) ==
    [lynx_result |-> lynx_result, pw_result |-> pw_result, use_llm |-> use_llm,
     llm_out |-> llm_out, again |-> again]

FirstOutcome == [pc |-> pc, result |-> result]

\* browser.py:144 and 196: the merger built once is handed the same two
\* results again.  merge's locals (merger.py:345-367) start afresh; the
\* object's fields and what the caller still holds stay as they are.
MergeAgain ==
    /\ pc \in {"done", "raised"}
    /\ fn_args = <<>>
    /\ fn_args' = FirstCall("same")
    /\ fn_ret' = FirstOutcome
    /\ base_mapping' = EmptyMapping
    /\ missing' = <<>>
    /\ placements' = <<>>
    /\ stages' = {}
    /\ pc' = "start"
    /\ UNCHANGED fetchVars
    /\ UNCHANGED browseVars
    /\ UNCHANGED chatVars
    /\ UNCHANGED <<lynx_result, pw_result, use_llm, llm_out, llm_in, llm_calls, result>>

\* browser.py:143-144 with merger.py:313-317: a merger built with
\* use_llm=False is handed the two results an enabled merger was handed.
MergeAgainDisabled ==
    /\ pc \in {"done", "raised"}
    /\ fn_args = <<>>
    /\ use_llm
    /\ fn_args' = FirstCall("disabled")
    /\ fn_ret' = FirstOutcome
    /\ use_llm' = FALSE
    /\ base_mapping' = EmptyMapping
    /\ missing' = <<>>
    /\ placements' = <<>>
    /\ stages' = {}
    /\ pc' = "start"
    /\ UNCHANGED fetchVars
    /\ UNCHANGED browseVars
    /\ UNCHANGED chatVars
    /\ UNCHANGED <<lynx_result, pw_result, llm_out, llm_in, llm_calls, result>>

\* merger.py:367 in the first of the two calls: any drawn answer.
AdvisorCalledFirst == fn_args = <<>> /\ AdvisorCalled

\* merger.py:367 in the second call: the prompt (merger.py:147-181) is built
\* from the text and the unknown elements alone, and the stand-in advisor
\* answers the same prompt as it answered before.
AdvisorCalledAgain ==
    /\ pc = "advise"
    /\ fn_args # <<>>
    /\ AdvisorConsulted(use_llm, UnknownElements(missing))
    /\ LET r == PlaceElements(GenerateJson(fn_args.llm_out))
       IN /\ placements' = r.placements
          /\ pc' = IF r.raised THEN "raised" ELSE "inject"
    /\ llm_in' = UnknownElements(missing)
    /\ llm_calls' = llm_calls + 1
    /\ stages' = stages \cup {"advisor"}
    /\ UNCHANGED fetchVars
    /\ UNCHANGED browseVars
    /\ UNCHANGED chatVars
    /\ UNCHANGED <<lynx_result, pw_result, use_llm, llm_out, base_mapping, missing,
                   result, fn_args, fn_ret>>

NextRepeat ==
    \/ MergeCall
    \/ MergeBothFailed
    \/ MergeFallback
    \/ MergeShortCircuit
    \/ MergeClassify
    \/ AdvisorSkipped
    \/ AdvisorCalledFirst
    \/ AdvisorCalledAgain
    \/ MergeInject
    \/ MergeAgain
    \/ MergeAgainDisabled

SpecRepeat == Init /\ [][NextRepeat]_vars

\* ------------------------------------------------ match_by_url on its own

\* Further snapshot elements: a second link to u1, a link to u1 without a
\* label, and (for the function taken alone, which accepts any element list)
\* a button carrying the href u1.
OtherLinkU1 == [type |-> "a",      text |-> "Menu", href |-> "u1", selector |-> "#alt",  visible |-> TRUE]
BlankLinkU1 == [type |-> "a",      text |-> "",     href |-> "u1", selector |-> "#main", visible |-> TRUE]
HrefButton  == [type |-> "button", text |-> "Go",   href |-> "u1", selector |-> "#main", visible |-> TRUE]

MatchElementLists ==
    { WithIndex(p) :
        p \in SeqsUpTo({LinkU1, OtherLinkU1, BlankLinkU1, HrefButton, NavLinkU2}, MaxElems) }

\* fetcher.py:133-154: (number, url) pairs, numbered by the text tool: no
\* number twice, a url any number of times.
MatchLinkLists ==
    { l \in SeqsUpTo({1, 2} \X {"u1", "u2", "u9"}, 2) :
        \A i, j \in 1..Len(l) : i # j => l[i][1] # l[j][1] }

\* merger.py:34-58: one call of Preprocessor.match_by_url.
MatchCall ==
    /\ pc = "idle"
    /\ \E l \in MatchLinkLists, e \in MatchElementLists :
         /\ fn_args' = [links |-> l, elements |-> e]
         /\ fn_ret' = MatchByUrl(l, e)
    /\ pc' = "matched"
    /\ UNCHANGED fetchVars
    /\ UNCHANGED browseVars
    /\ UNCHANGED mergeVars
    /\ UNCHANGED chatVars

NextMatch == MatchCall

SpecMatch == Init /\ [][NextMatch]_vars

\* ------------------------------- find_missing_elements and categorize_elements
\* ------------------------------- each on its own

FindMissingKinds ==
    {LinkU1, NavLinkU2, BlankLinkU1, SubmitBtn, HiddenBtn, BlankBtn, BlankInput,
     HiddenInput, NoteArea, PickSelect}

FindMissingLists == { WithIndex(p) : p \in SeqsUpTo(FindMissingKinds, MaxElems) }

\* merger.py:60-88: one call of Preprocessor.find_missing_elements, on a base
\* mapping as match_by_url builds them.
FindMissingCall ==
    /\ pc = "idle"
    /\ \E e \in FindMissingLists, bm \in InjectBaseMappings :
         /\ fn_args' = [elements |-> e, mapping |-> bm]
         /\ fn_ret' = FindMissingElements(e, bm)
    /\ pc' = "found"
    /\ UNCHANGED fetchVars
    /\ UNCHANGED browseVars
    /\ UNCHANGED mergeVars
    /\ UNCHANGED chatVars

\* Lists of unplaced elements, as find_missing_elements returns them: every
\* element visible and labelled, or an input.
CategorizeKinds ==
    {LinkU1, NavLinkU2, FooterLink, SubmitBtn, MenuBtn, BlankInput, NoteArea, PickSelect}

CategorizeLists == { WithIndex(p) : p \in SeqsUpTo(CategorizeKinds, MaxElems) }

\* merger.py:90-131: one call of Preprocessor.categorize_elements.
CategorizeCall ==
    /\ pc = "idle"
    /\ \E e \in CategorizeLists :
         /\ fn_args' = [elements |-> e]
         /\ fn_ret' = CategorizeElements(e)
    /\ pc' = "categorized"
    /\ UNCHANGED fetchVars
    /\ UNCHANGED browseVars
    /\ UNCHANGED mergeVars
    /\ UNCHANGED chatVars

NextPre ==
    \/ FindMissingCall
    \/ CategorizeCall

SpecPre == Init /\ [][NextPre]_vars

\* ------------------------------------------------------- ParallelFetcher.fetch

\* fetcher.py:79-131 and 13-19: what the text leg can return.
LynxOk == [text |-> <<"a">>, links |-> << <<1, "u1">> >>, success |-> TRUE, error |-> None]

LynxFailed == [text |-> <<>>, links |-> <<>>, success |-> FALSE, error |-> "Lynx timeout"]

\* fetcher.py:177-214 and 35-43: what the snapshot leg can return.
PlaywrightOk ==
    [elements |-> WithIndex(<<LinkU1>>), content |-> <<"hi">>, success |-> TRUE, error |-> None]

PlaywrightFailed ==
    [elements |-> <<>>, content |-> <<>>, success |-> FALSE, error |-> "Playwright error"]

\* Both leg functions catch every Exception and return a result.
LegOutcomes(name) ==
    IF name = "lynx" THEN {LynxOk, LynxFailed} ELSE {PlaywrightOk, PlaywrightFailed}

\* fetcher.py:390-394
TimeoutResult(name) ==
    IF name = "lynx"
    THEN [text |-> <<>>, links |-> <<>>, success |-> FALSE, error |-> "Timeout"]
    ELSE [elements |-> <<>>, content |-> <<>>, success |-> FALSE, error |-> "Timeout"]

\* fetcher.py:396
LynxDisabled == [text |-> <<>>, links |-> <<>>, success |-> FALSE, error |-> "Lynx disabled"]

\* Mutant: one failed leg turning the whole pair into failures.
ReturnedPairAllOrNothing(res) ==
    IF \E name \in DOMAIN res : ~res[name].success
    THEN << [text |-> <<>>, links |-> <<>>, success |-> FALSE, error |-> "error"],
            [elements |-> <<>>, content |-> <<>>, success |-> FALSE, error |-> "error"] >>
    ELSE << IF "lynx" \in DOMAIN res THEN res["lynx"] ELSE LynxDisabled, res["playwright"] >>

\* Mutant: the pair read from the futures as they stand at the return.
ReturnedPairFromFutures(res) ==
    << IF legs["lynx"].status = "done" THEN legs["lynx"].out
       ELSE IF "lynx" \in DOMAIN res THEN res["lynx"] ELSE LynxDisabled,
       IF legs["playwright"].status = "done" THEN legs["playwright"].out
       ELSE res["playwright"] >>

\* fetcher.py:396-399
ReturnedPair(res) ==
    << IF "lynx" \in DOMAIN res THEN res["lynx"] ELSE LynxDisabled, res["playwright"] >>

\* results[name] = value
PutResult(res, name, value) ==
    [k \in DOMAIN res \cup {name} |-> IF k = name THEN value ELSE res[k]]

\* fetcher.py:380/382: a leg handed to the executor; both workers are free.
Submitted == [status |-> "running", out |-> None, done_at |-> 0, runs |-> 1]

\* fetcher.py:387-389: the leg whose future the loop is waiting on.
WaitingOn ==
    IF pc = "wait_lynx" THEN "lynx"
    ELSE IF pc = "wait_playwright" THEN "playwright"
    ELSE None

\* fetcher.py:387: the loop's next position after the future of name.
AfterLeg(name) == IF name = "lynx" THEN "wait_playwright" ELSE "shutdown"

Fetching == pc \in {"wait_lynx", "wait_playwright", "shutdown"}

\* fetcher.py:364-382: fetch is called and submits its legs.
FetchCall ==
    /\ pc = "idle"
    /\ \E lynx_used \in BOOLEAN, timeout \in 1..MaxTimeout :
         /\ fn_args' = [use_lynx |-> lynx_used, timeout |-> timeout]
         /\ legs' = [name \in {"lynx", "playwright"} |->
                        IF name = "lynx" /\ ~lynx_used THEN NotSubmitted ELSE Submitted]
         /\ pc' = IF lynx_used THEN "wait_lynx" ELSE "wait_playwright"
    /\ results' = NoResults
    /\ wait_from' = now
    /\ expired' = {}
    /\ UNCHANGED <<now, fn_ret>>
    /\ UNCHANGED mergeVars
    /\ UNCHANGED browseVars
    /\ UNCHANGED chatVars

\* fetcher.py:380/382: a leg's fetch function returns in its worker thread,
\* whatever the calling thread is doing.
LegCompletes(name) ==
    /\ legs[name].status = "running"
    /\ \E out \in LegOutcomes(name) :
         legs' = [legs EXCEPT ![name] =
                     [status |-> "done", out |-> out, done_at |-> now, runs |-> @.runs]]
    /\ UNCHANGED <<pc, fn_args, fn_ret, now, results, wait_from, expired>>
    /\ UNCHANGED mergeVars
    /\ UNCHANGED browseVars
    /\ UNCHANGED chatVars

\* fetcher.py:389: future.result(timeout=timeout) hands over the result.
WaitResult ==
    /\ WaitingOn # None
    /\ legs[WaitingOn].status = "done"
    /\ results' = PutResult(results, WaitingOn, legs[WaitingOn].out)
    /\ pc' = AfterLeg(WaitingOn)
    /\ wait_from' = now
    /\ UNCHANGED <<fn_args, fn_ret, now, legs, expired>>
    /\ UNCHANGED mergeVars
    /\ UNCHANGED browseVars
    /\ UNCHANGED chatVars

\* fetcher.py:389-394: future.result raises TimeoutError, timeout after the
\* call began; the leg goes on running.
WaitTimeout ==
    /\ WaitingOn # None
    /\ legs[WaitingOn].status = "running"
    /\ now - wait_from >= fn_args.timeout
    /\ results' = PutResult(results, WaitingOn, TimeoutResult(WaitingOn))
    /\ expired' = expired \cup {WaitingOn}
    /\ pc' = AfterLeg(WaitingOn)
    /\ wait_from' = now
    /\ UNCHANGED <<fn_args, fn_ret, now, legs>>
    /\ UNCHANGED mergeVars
    /\ UNCHANGED browseVars
    /\ UNCHANGED chatVars

\* fetcher.py:399 inside the with block of fetcher.py:376: the return runs
\* ThreadPoolExecutor.__exit__, shutdown(wait=True), which joins both workers.
FetchReturn ==
    /\ pc = "shutdown"
    /\ \A name \in {"lynx", "playwright"} : legs[name].status # "running"
    /\ fn_ret' = [pair |-> ReturnedPair(results), at |-> now]
    /\ pc' = "fetched"
    /\ UNCHANGED <<fn_args, now, legs, results, wait_from, expired>>
    /\ UNCHANGED mergeVars
    /\ UNCHANGED browseVars
    /\ UNCHANGED chatVars

\* A step of the calling thread is due now.
CallerStepDue ==
    \/ /\ WaitingOn # None
       /\ \/ legs[WaitingOn].status = "done"
          \/ now - wait_from >= fn_args.timeout
    \/ /\ pc = "shutdown"
       /\ \A name \in {"lynx", "playwright"} : legs[name].status # "running"

\* One tick passes while fetch is in progress and its thread is blocked.
Tick ==
    /\ Fetching
    /\ ~CallerStepDue
    /\ now < MaxTime
    /\ now' = now + 1
    /\ UNCHANGED <<pc, fn_args, fn_ret, legs, results, wait_from, expired>>
    /\ UNCHANGED mergeVars
    /\ UNCHANGED browseVars
    /\ UNCHANGED chatVars

NextFetch ==
    \/ FetchCall
    \/ \E name \in {"lynx", "playwright"} : LegCompletes(name)
    \/ WaitResult
    \/ WaitTimeout
    \/ FetchReturn
    \/ Tick

SpecFetch == Init /\ [][NextFetch]_vars

\* ------------------------------------------------------- TUIBrowser.run

\* browser.py:173-203: navigate(url) with history_index as the caller left it;
\* loaded is result.success of the merge of the two fetches.  On success the
\* url is appended to history and history_index made the last index.
Navigate(url, loaded, index) ==
    /\ history' = IF loaded THEN Append(history, url) ELSE history
    /\ history_index' = IF loaded THEN Len(history) ELSE index
    /\ shown' = [url |-> url, success |-> loaded]

\* The record of a command that led to navigate(url).
Navigated(cmd, url, loaded) ==
    [cmd |-> cmd, said |-> "none", url |-> url, success |-> loaded, was |-> shown.url]

\* The record of a command that printed a message and went on.
Said(cmd, message) ==
    [cmd |-> cmd, said |-> message, url |-> "none", success |-> FALSE, was |-> shown.url]

Logged(entry) == <<trail[2], entry>>

\* browser.py:257-264: run navigates to the initial url and returns if that
\* failed.
RunStart ==
    /\ pc = "idle"
    /\ \E url \in Urls, loaded \in BOOLEAN :
         /\ Navigate(url, loaded, history_index)
         /\ trail' = Logged(Navigated("start", url, loaded))
         /\ pc' = IF loaded THEN "prompt" ELSE "ended"
    /\ UNCHANGED <<page_url, fn_args, fn_ret>>
    /\ UNCHANGED mergeVars
    /\ UNCHANGED fetchVars
    /\ UNCHANGED chatVars

\* browser.py:277-279: q, quit, exit.
CmdQuit ==
    /\ pc = "prompt"
    /\ pc' = "ended"
    /\ trail' = Logged(Said("quit", "goodbye"))
    /\ UNCHANGED <<history, history_index, page_url, shown, fn_args, fn_ret>>
    /\ UNCHANGED mergeVars
    /\ UNCHANGED fetchVars
    /\ UNCHANGED chatVars

\* browser.py:281-283, 303-305, 324-326: help, links and an unknown command
\* print and go on.
CmdPrints ==
    /\ pc = "prompt"
    /\ \E cmd \in {"help", "links", "unknown"} : trail' = Logged(Said(cmd, cmd))
    /\ UNCHANGED <<pc, history, history_index, page_url, shown, fn_args, fn_ret>>
    /\ UNCHANGED mergeVars
    /\ UNCHANGED fetchVars
    /\ UNCHANGED chatVars

\* browser.py:285-292: b, back.
CmdBack ==
    /\ pc = "prompt"
    /\ Len(history) < MaxHistory
    /\ IF history_index > 0
       THEN \E loaded \in BOOLEAN :
              LET url == history[(history_index - 1) + 1]
              IN /\ Navigate(url, loaded, history_index - 1)
                 /\ trail' = Logged(Navigated("back", url, loaded))
       ELSE /\ trail' = Logged(Said("back", "no previous page"))
            /\ UNCHANGED <<history, history_index, shown>>
    /\ UNCHANGED <<pc, page_url, fn_args, fn_ret>>
    /\ UNCHANGED mergeVars
    /\ UNCHANGED fetchVars
    /\ UNCHANGED chatVars

\* browser.py:294-301: f, forward.
CmdForward ==
    /\ pc = "prompt"
    /\ Len(history) < MaxHistory
    /\ IF history_index < Len(history) - 1
       THEN \E loaded \in BOOLEAN :
              LET url == history[(history_index + 1) + 1]
              IN /\ Navigate(url, loaded, history_index + 1)
                 /\ trail' = Logged(Navigated("forward", url, loaded))
       ELSE /\ trail' = Logged(Said("forward", "no next page"))
            /\ UNCHANGED <<history, history_index, shown>>
    /\ UNCHANGED <<pc, page_url, fn_args, fn_ret>>
    /\ UNCHANGED mergeVars
    /\ UNCHANGED fetchVars
    /\ UNCHANGED chatVars

\* browser.py:308-316: a number.  handle_input_number (browser.py:101-128)
\* returns None or 'fill' and the loop goes on with the same result, or it
\* acted on the page, which may now be elsewhere, and run navigates to
\* self.page.url.
CmdNumber ==
    /\ pc = "prompt"
    /\ Len(history) < MaxHistory
    /\ \/ /\ trail' = Logged(Said("number", "none"))
          /\ UNCHANGED <<history, history_index, shown, page_url>>
       \/ \E url \in Urls \cup {page_url}, loaded \in BOOLEAN :
            /\ page_url' = url
            /\ Navigate(url, loaded, history_index)
            /\ trail' = Logged(Navigated("number", url, loaded))
    /\ UNCHANGED <<pc, fn_args, fn_ret>>
    /\ UNCHANGED mergeVars
    /\ UNCHANGED fetchVars
    /\ UNCHANGED chatVars

\* browser.py:319-322: an address.  handle_direct_url (browser.py:88-99) sends
\* the page there and run navigates to self.page.url; page.goto may raise,
\* which ends run (browser.py:328-329).
CmdUrl ==
    /\ pc = "prompt"
    /\ Len(history) < MaxHistory
    /\ \/ \E url \in Urls, loaded \in BOOLEAN :
            /\ page_url' = url
            /\ Navigate(url, loaded, history_index)
            /\ trail' = Logged(Navigated("url", url, loaded))
            /\ pc' = pc
       \/ /\ pc' = "ended"
          /\ trail' = Logged(Said("url", "raised"))
          /\ UNCHANGED <<history, history_index, shown, page_url>>
    /\ UNCHANGED <<fn_args, fn_ret>>
    /\ UNCHANGED mergeVars
    /\ UNCHANGED fetchVars
    /\ UNCHANGED chatVars

NextBrowse ==
    \/ RunStart
    \/ CmdQuit
    \/ CmdPrints
    \/ CmdBack
    \/ CmdForward
    \/ CmdNumber
    \/ CmdUrl

SpecBrowse == Init /\ [][NextBrowse]_vars

\* --------------------------------------- chat server: broadcast and stream

\* server.py:92-96: list.remove of a client queue.
RemoveClient(clients, s) == SelectSeq(clients, LAMBDA c : c # s)

\* server.py:267/338: a request thread calls broadcast_message(message_data).
BroadcastCall(p) ==
    /\ chat_pc[p] = "idle"
    /\ broadcasts' = [broadcasts EXCEPT ![p] = [message |-> MessageData, at |-> 0]]
    /\ chat_pc' = [chat_pc EXCEPT ![p] = "locking"]
    /\ UNCHANGED <<sse_clients, sse_lock, queues>>
    /\ UNCHANGED <<pc, fn_args, fn_ret>>
    /\ UNCHANGED mergeVars
    /\ UNCHANGED fetchVars
    /\ UNCHANGED browseVars

\* server.py:86-88: with sse_lock, and the for loop begins.
BroadcastLock(p) ==
    /\ chat_pc[p] = "locking"
    /\ sse_lock = LockFree
    /\ sse_lock' = p
    /\ broadcasts' = [broadcasts EXCEPT ![p].at = 1]
    /\ chat_pc' = [chat_pc EXCEPT ![p] = "putting"]
    /\ UNCHANGED <<sse_clients, queues>>
    /\ UNCHANGED <<pc, fn_args, fn_ret>>
    /\ UNCHANGED mergeVars
    /\ UNCHANGED fetchVars
    /\ UNCHANGED browseVars

\* server.py:88-90: client.put(message_data), a blocking put without timeout:
\* it waits while the queue holds maxsize items and never raises, so the
\* except branch of server.py:91-92 is not taken and dead_clients stays empty.
BroadcastPut(p) ==
    /\ chat_pc[p] = "putting"
    /\ broadcasts[p].at <= Len(sse_clients)
    /\ LET client == sse_clients[broadcasts[p].at]
       IN /\ Len(queues[client]) < QueueMax
          /\ queues' = [queues EXCEPT ![client] = Append(@, broadcasts[p].message)]
    /\ broadcasts' = [broadcasts EXCEPT ![p].at = @ + 1]
    /\ UNCHANGED <<sse_clients, sse_lock, chat_pc>>
    /\ UNCHANGED <<pc, fn_args, fn_ret>>
    /\ UNCHANGED mergeVars
    /\ UNCHANGED fetchVars
    /\ UNCHANGED browseVars

\* server.py:94-96 and the end of the with block: nothing to remove, the lock
\* is released and broadcast_message returns.
BroadcastDone(p) ==
    /\ chat_pc[p] = "putting"
    /\ broadcasts[p].at > Len(sse_clients)
    /\ sse_lock' = LockFree
    /\ broadcasts' = [broadcasts EXCEPT ![p] = NoBroadcast]
    /\ chat_pc' = [chat_pc EXCEPT ![p] = "idle"]
    /\ UNCHANGED <<sse_clients, queues>>
    /\ UNCHANGED <<pc, fn_args, fn_ret>>
    /\ UNCHANGED mergeVars
    /\ UNCHANGED fetchVars
    /\ UNCHANGED browseVars

\* server.py:351-354: a client asks for the stream; event_stream starts with
\* a queue of its own.
StreamOpen(s) ==
    /\ chat_pc[s] \in {"idle", "closed"}
    /\ queues' = [queues EXCEPT ![s] = <<>>]
    /\ chat_pc' = [chat_pc EXCEPT ![s] = "register"]
    /\ UNCHANGED <<sse_clients, sse_lock, broadcasts>>
    /\ UNCHANGED <<pc, fn_args, fn_ret>>
    /\ UNCHANGED mergeVars
    /\ UNCHANGED fetchVars
    /\ UNCHANGED browseVars

\* server.py:356-357: with sse_lock: sse_clients.append(client_queue).
StreamRegister(s) ==
    /\ chat_pc[s] = "register"
    /\ sse_lock = LockFree
    /\ sse_lock' = s
    /\ sse_clients' = Append(sse_clients, s)
    /\ chat_pc' = [chat_pc EXCEPT ![s] = "registered"]
    /\ UNCHANGED <<queues, broadcasts>>
    /\ UNCHANGED <<pc, fn_args, fn_ret>>
    /\ UNCHANGED mergeVars
    /\ UNCHANGED fetchVars
    /\ UNCHANGED browseVars

\* server.py:357/375: the with block of a stream ends; after registration the
\* generator yields the 'connected' event (server.py:361).
StreamUnlock(s) ==
    /\ chat_pc[s] \in {"registered", "removed"}
    /\ sse_lock' = LockFree
    /\ chat_pc' = [chat_pc EXCEPT ![s] = IF @ = "registered" THEN "sending" ELSE "closed"]
    /\ UNCHANGED <<sse_clients, queues, broadcasts>>
    /\ UNCHANGED <<pc, fn_args, fn_ret>>
    /\ UNCHANGED mergeVars
    /\ UNCHANGED fetchVars
    /\ UNCHANGED browseVars

\* server.py:361/367/370: the client took the event the generator yielded,
\* the generator goes on to client_queue.get.
StreamSent(s) ==
    /\ chat_pc[s] = "sending"
    /\ chat_pc' = [chat_pc EXCEPT ![s] = "waiting"]
    /\ UNCHANGED <<sse_clients, sse_lock, queues, broadcasts>>
    /\ UNCHANGED <<pc, fn_args, fn_ret>>
    /\ UNCHANGED mergeVars
    /\ UNCHANGED fetchVars
    /\ UNCHANGED browseVars

\* server.py:366-367: client_queue.get hands over a message, which is yielded.
StreamGet(s) ==
    /\ chat_pc[s] = "waiting"
    /\ queues[s] # <<>>
    /\ queues' = [queues EXCEPT ![s] = Tail(@)]
    /\ chat_pc' = [chat_pc EXCEPT ![s] = "sending"]
    /\ UNCHANGED <<sse_clients, sse_lock, broadcasts>>
    /\ UNCHANGED <<pc, fn_args, fn_ret>>
    /\ UNCHANGED mergeVars
    /\ UNCHANGED fetchVars
    /\ UNCHANGED browseVars

\* server.py:366-370: client_queue.get(timeout=30) raises queue.Empty and a
\* keepalive comment is yielded.
StreamKeepalive(s) ==
    /\ chat_pc[s] = "waiting"
    /\ queues[s] = <<>>
    /\ chat_pc' = [chat_pc EXCEPT ![s] = "sending"]
    /\ UNCHANGED <<sse_clients, sse_lock, queues, broadcasts>>
    /\ UNCHANGED <<pc, fn_args, fn_ret>>
    /\ UNCHANGED mergeVars
    /\ UNCHANGED fetchVars
    /\ UNCHANGED browseVars

\* server.py:361/367/370: the client stops consuming while it stays
\* connected; the generator stays suspended at its yield.
StreamStalls(s) ==
    /\ chat_pc[s] = "sending"
    /\ chat_pc' = [chat_pc EXCEPT ![s] = "stalled"]
    /\ UNCHANGED <<sse_clients, sse_lock, queues, broadcasts>>
    /\ UNCHANGED <<pc, fn_args, fn_ret>>
    /\ UNCHANGED mergeVars
    /\ UNCHANGED fetchVars
    /\ UNCHANGED browseVars

\* server.py:371: the client disconnects and GeneratorExit is raised at the
\* yield the generator is suspended at.
StreamDisconnects(s) ==
    /\ chat_pc[s] \in {"sending", "stalled"}
    /\ chat_pc' = [chat_pc EXCEPT ![s] = "closing"]
    /\ UNCHANGED <<sse_clients, sse_lock, queues, broadcasts>>
    /\ UNCHANGED <<pc, fn_args, fn_ret>>
    /\ UNCHANGED mergeVars
    /\ UNCHANGED fetchVars
    /\ UNCHANGED browseVars

\* server.py:373-375: with sse_lock: the queue is removed from sse_clients.
StreamRemove(s) ==
    /\ chat_pc[s] = "closing"
    /\ sse_lock = LockFree
    /\ sse_lock' = s
    /\ sse_clients' = RemoveClient(sse_clients, s)
    /\ chat_pc' = [chat_pc EXCEPT ![s] = "removed"]
    /\ UNCHANGED <<queues, broadcasts>>
    /\ UNCHANGED <<pc, fn_args, fn_ret>>
    /\ UNCHANGED mergeVars
    /\ UNCHANGED fetchVars
    /\ UNCHANGED browseVars

NextChat ==
    \/ \E p \in Posters :
         \/ BroadcastCall(p)
         \/ BroadcastLock(p)
         \/ BroadcastPut(p)
         \/ BroadcastDone(p)
    \/ \E s \in Streams :
         \/ StreamOpen(s)
         \/ StreamRegister(s)
         \/ StreamUnlock(s)
         \/ StreamSent(s)
         \/ StreamGet(s)
         \/ StreamKeepalive(s)
         \/ StreamStalls(s)
         \/ StreamDisconnects(s)
         \/ StreamRemove(s)

\* server.py:406  threaded=True: every request thread that can take a step
\* of the server's code takes it in the end.  What clients do (post, open a
\* stream, take an event, stall, disconnect) is not forced, except that a
\* client that has not stalled takes the event sent to it.
ChatFairness ==
    /\ \A p \in Posters :
         /\ WF_vars(BroadcastLock(p))
         /\ WF_vars(BroadcastPut(p))
         /\ WF_vars(BroadcastDone(p))
    /\ \A s \in Streams :
         /\ WF_vars(StreamRegister(s))
         /\ WF_vars(StreamUnlock(s))
         /\ WF_vars(StreamSent(s))
         /\ WF_vars(StreamGet(s))
         /\ WF_vars(StreamKeepalive(s))
         /\ WF_vars(StreamRemove(s))

SpecChat == Init /\ [][NextChat]_vars /\ ChatFairness

\* ===================================================================== claims

Indices(elements) == { elements[k].index : k \in 1..Len(elements) }

ElementOf(elements, idx) == elements[CHOOSE k \in 1..Len(elements) : elements[k].index = idx]

\* The merge returned through the degraded fallback.
FallbackReturned == pc = "done" /\ ~lynx_result.success /\ pw_result.success

\* The merge returned through the full pipeline.
PipelineReturned == pc = "done" /\ "inject" \in stages

\* The indices of the unplaced elements the classifier puts into a bucket.
InBucket(name) == { missing[k].index : k \in { j \in 1..Len(missing) : Category(missing[j]) = name } }

VisibleCount(elements) == Cardinality({ i \in 1..Len(elements) : elements[i].visible })

\* C1: every mapping merge returns (full pipeline, short-circuit, fallback,
\* both-failed) has pairwise distinct, positive numbers: each entry's number
\* is at least 1 and no two entries carry the same number.
C1_NumbersUniquePositive ==
    pc = "done" =>
        /\ \A k \in DOMAIN result.mapping : result.mapping[k].number >= 1
        /\ \A j, k \in DOMAIN result.mapping :
              j # k => result.mapping[j].number # result.mapping[k].number

\* C1 witness: a full-pipeline result holding matched and injected entries.
C1_Witness ==
    /\ PipelineReturned
    /\ DOMAIN base_mapping # {}
    /\ Cardinality(DOMAIN result.mapping) > Cardinality(DOMAIN base_mapping)

\* C2: when both source results report failure, merge returns success=false,
\* an empty mapping and empty text, and has run no matching, classification,
\* advisor call or injection.
C2_BothFailed ==
    (pc = "done" /\ ~lynx_result.success /\ ~pw_result.success) =>
        /\ ~result.success
        /\ DOMAIN result.mapping = {}
        /\ result.text = <<>>
        /\ stages = {}
        /\ llm_calls = 0

\* C2 witness: a merge of two failed results has returned.
C2_Witness == pc = "done" /\ ~lynx_result.success /\ ~pw_result.success

\* C3 as claimed: in the fallback the mapping has min(50, V) entries, V the
\* number of visible snapshot elements wherever they stand in the list.
C3_Original ==
    FallbackReturned =>
        Cardinality(DOMAIN result.mapping) =
            Min2(FallbackLimit, VisibleCount(pw_result.elements))

\* C4 as claimed: in the fallback the mapping's numbers are exactly 1..k, k
\* the number of entries, and a smaller number belongs to an element earlier
\* in extraction order.
C4_Original ==
    FallbackReturned =>
        /\ DOMAIN result.mapping = 1..Cardinality(DOMAIN result.mapping)
        /\ \A j, k \in DOMAIN result.mapping :
              j < k => result.mapping[j].el < result.mapping[k].el

\* C5 as claimed: in the fallback every entry's action follows the
\* Injector's kind rule (link navigate, input/textarea fill, button with
\* "submit" in its label submit, other button and select click).
C5_Original ==
    FallbackReturned =>
        \A k \in DOMAIN result.mapping :
            LET element == ElementOf(pw_result.elements, result.mapping[k].el)
            IN result.mapping[k].action =
                 (CASE element.type = "a" -> "navigate"
                    [] element.type \in {"input", "textarea"} -> "fill"
                    [] element.type = "button" /\ Occurs("submit", Lower(element.text)) -> "submit"
                    [] OTHER -> "click")

\* C6: when both sources succeeded and matching leaves no element unplaced,
\* merge returns the text source's text unchanged, a mapping equal to the
\* base mapping, success=true, and the advisor was not consulted.
C6_ShortCircuit ==
    (pc = "done" /\ lynx_result.success /\ pw_result.success
        /\ "match" \in stages /\ missing = <<>>) =>
        /\ result.text = lynx_result.text
        /\ result.mapping = base_mapping
        /\ result.success
        /\ llm_calls = 0
        /\ "advisor" \notin stages /\ "inject" \notin stages

\* C6 witness: a short-circuit return with a matched link in the mapping.
C6_Witness ==
    /\ pc = "done" /\ lynx_result.success /\ pw_result.success
    /\ "match" \in stages /\ missing = <<>>
    /\ pw_result.elements # <<>>
    /\ DOMAIN base_mapping # {}

\* inject_elements, exercised on its own, returned a value.
InjectReturned == pc = "returned" /\ ~fn_ret.raised

\* The line a placement set requests for index idx (0 when it names none).
LineAskedFor(placement_set, idx) ==
    LET dec == placement_set[CHOOSE i \in 1..Len(placement_set) : placement_set[i].idx = idx].dec
    IN IF dec.line.kind = "int" THEN dec.line.v ELSE 0

\* The indices a placement set has placed: shown, and an unplaced element's.
PlacedIndices(placement_set, missing_elements) ==
    { placement_set[i].idx : i \in { j \in 1..Len(placement_set) :
          placement_set[j].dec.show /\ placement_set[j].idx \in Indices(missing_elements) } }

LargestNumber(mapping) == IF DOMAIN mapping = {} THEN 0 ELSE Max(DOMAIN mapping)

\* C7: the k elements inject_elements places get exactly the numbers
\* m+1..m+k, m the largest base-mapping number (0 for an empty base mapping),
\* one number per placed element, handed out in descending order of the
\* requested line; so every injected number exceeds every base number and a
\* decision that places nothing (show=false, or no such element) uses none.
C7_FreshNumbers ==
    InjectReturned =>
        LET m      == LargestNumber(fn_args.base)
            placed == PlacedIndices(fn_args.placements, fn_args.missing)
            k      == Cardinality(placed)
            new    == DOMAIN fn_ret.mapping \ DOMAIN fn_args.base
        IN /\ new = (m + 1)..(m + k)
           /\ { fn_ret.mapping[n].el : n \in new } = placed
           /\ \A n \in new : fn_ret.mapping[n].number = n
           /\ \A n1, n2 \in new :
                 n1 < n2 => LineAskedFor(fn_args.placements, fn_ret.mapping[n1].el)
                              >= LineAskedFor(fn_args.placements, fn_ret.mapping[n2].el)

\* C7 witness: base mapping with largest number 7 and two elements placed at
\* different lines: the element of the later line got 8 and the other, though
\* first in the placement set, got 9.
C7_Witness ==
    /\ InjectReturned
    /\ LargestNumber(fn_args.base) = 7
    /\ Len(fn_args.placements) = 2
    /\ DOMAIN fn_ret.mapping = {7, 8, 9}
    /\ LineAskedFor(fn_args.placements, fn_ret.mapping[8].el)
         > LineAskedFor(fn_args.placements, fn_ret.mapping[9].el)
    /\ fn_args.placements[1].idx = fn_ret.mapping[9].el

\* The decisions of the advisor's answer whose key converts to index idx.
AnswersFor(idx) ==
    { i \in 1..Len(llm_out.items) :
        llm_out.items[i].key.k = "el" /\ llm_out.items[i].key.idx = idx }

\* The advisor answered show=false for idx (in a decision that is an object).
SaidHide(idx) ==
    \E i \in AnswersFor(idx) : llm_out.items[i].dec.isdict /\ ~llm_out.items[i].dec.show

\* The decision that stands for idx, the last one of the answer, is show=false.
LastSaidHide(idx) ==
    /\ AnswersFor(idx) # {}
    /\ LET last == llm_out.items[Max(AnswersFor(idx))].dec
       IN last.isdict /\ ~last.show

\* The numbers that stand as chunks in a text, up to a given one.
NumbersIn(text, upto) == { n \in 1..upto : \E i \in 1..Len(text) : text[i] = ToString(n) }

NumberCeiling == FirstFreshNumber(base_mapping) + Len(placements)

\* No entry of the returned mapping was built from element idx, and no
\* marker in the returned text carries the number of such an entry.
Absent(idx) ==
    /\ \A n \in DOMAIN result.mapping : result.mapping[n].el # idx
    /\ \A n \in NumbersIn(result.text, NumberCeiling) :
          n \in DOMAIN result.mapping /\ result.mapping[n].el # idx

AdvisorFailed == llm_out.kind \in {"failed", "malformed"}

NewEntriesFor(idx) ==
    { n \in DOMAIN result.mapping \ DOMAIN base_mapping : result.mapping[n].el = idx }

\* C9: when the advisor's answer is unparseable (or the capability is
\* unreachable or erroring) the placement set is empty, the merge returns
\* success=true, every primary-bucket element has a mapping entry and a
\* marker, and no unknown-bucket element is in the mapping or the text.
C9_AdvisorFailureDegrades ==
    AdvisorFailed =>
        /\ pc # "raised"
        /\ pc = "inject" => placements = <<>>
        /\ pc = "done" =>
              /\ result.success
              /\ \A idx \in InBucket("primary") :
                    /\ Cardinality(NewEntriesFor(idx)) = 1
                    /\ NewEntriesFor(idx) \subseteq NumbersIn(result.text, NumberCeiling)
              /\ \A idx \in InBucket("unknown") : Absent(idx)

\* C9 witness: an unparseable answer, a primary element auto-appended, an
\* unknown element left out.
C9_Witness ==
    /\ pc = "done" /\ llm_out.kind = "malformed"
    /\ InBucket("primary") # {}
    /\ InBucket("unknown") # {}
    /\ Cardinality(DOMAIN result.mapping) > Cardinality(DOMAIN base_mapping)

\* C10 as claimed: a merge with at least one successful source returns
\* success=true whatever the advisor answers; no answer aborts it.
C10_Original ==
    /\ pc # "raised"
    /\ (pc = "done" /\ (lynx_result.success \/ pw_result.success)) => result.success

\* The line the Injector is specified to use for a requested line v in a text
\* of nlines lines.
ClampedLine(v, nlines) == IF v < 0 THEN 0 ELSE Min2(v, nlines - 1)

\* Every decision handed to inject_elements is an object, and every shown one
\* requests an integer line (or none, which stands for 0).
IntegerLinesOnly(placement_set) ==
    \A i \in 1..Len(placement_set) :
        /\ placement_set[i].dec.isdict
        /\ placement_set[i].dec.show => placement_set[i].dec.line.kind \in {"int", "absent"}

\* C11 as claimed: for show=true decisions with any integer requested line
\* (negative, in range, beyond the end) inject_elements raises nothing and
\* attaches each marker to line min(max(line, 0), last-line-index).
C11_Original ==
    (pc = "returned" /\ IntegerLinesOnly(fn_args.placements)) =>
        /\ ~fn_ret.raised
        /\ \A n \in DOMAIN fn_ret.mapping \ DOMAIN fn_args.base :
              LET out_lines == SplitLines(fn_ret.text)
                  target    == ClampedLine(LineAskedFor(fn_args.placements, fn_ret.mapping[n].el),
                                           Len(out_lines))
              IN \E i \in 1..Len(out_lines[target + 1]) :
                    out_lines[target + 1][i] = ToString(n)

\* C12: when the text fetch succeeded and the snapshot fetch failed (no
\* elements), merge returns the text source's text unchanged, an empty
\* mapping and success=true, also when the text source supplied links.
C12_SnapshotFailed ==
    (pc \in {"done", "raised"} /\ lynx_result.success /\ ~pw_result.success) =>
        /\ pc = "done"
        /\ result.text = lynx_result.text
        /\ DOMAIN result.mapping = {}
        /\ result.success

\* C12 witness: such a merge returned, the text source having numbered links.
C12_Witness ==
    /\ pc = "done" /\ lynx_result.success /\ ~pw_result.success
    /\ lynx_result.links # <<>>
    /\ Len(lynx_result.text) > 1

\* The second of two merge calls has ended (returned or raised).
SecondEnded(again) == pc \in {"done", "raised"} /\ fn_args # <<>> /\ fn_args.again = again

C17_DisabledAsFailing ==
    (SecondEnded("disabled") /\ fn_args.llm_out.kind \in {"failed", "malformed"}) =>
        /\ fn_ret.pc = "done" /\ pc = "done"
        /\ result.text = fn_ret.result.text
        /\ result.mapping = fn_ret.result.mapping

\* C17 witness: the enabled merger's advisor failed, both merges returned,
\* with a primary element placed and an unknown element at hand.
C17_Witness ==
    /\ SecondEnded("disabled") /\ pc = "done"
    /\ fn_args.llm_out.kind \in {"failed", "malformed"}
    /\ InBucket("unknown") # {}
    /\ Cardinality(DOMAIN result.mapping) > Cardinality(DOMAIN base_mapping)

\* C14 as claimed: fetch returns no later than the overall timeout after it
\* was called, however long the legs take: while it has not returned no more
\* than timeout has passed, and it returned at timeout at the latest.
C14_Original ==
    /\ Fetching => now <= fn_args.timeout
    /\ pc = "fetched" => fn_ret.at <= fn_args.timeout

\* C15: fetch returns a pair (text result, snapshot result) in which each
\* leg's part depends on that leg alone: a leg that completed before the
\* timeout has its result returned unchanged whatever the other leg did
\* (succeeded, failed, timed out), a leg whose wait expired or that was not
\* run is a failure, and no leg is run twice.
C15_LegsIndependent ==
    pc = "fetched" =>
        /\ Len(fn_ret.pair) = 2
        /\ \A i \in 1..2 :
              LET name == LegNames[i]
              IN /\ legs[name].runs <= 1
                 /\ (legs[name].status = "done" /\ legs[name].done_at < fn_args.timeout)
                       => fn_ret.pair[i] = legs[name].out
                 /\ (legs[name].status = "done" /\ name \notin expired)
                       => fn_ret.pair[i] = legs[name].out
                 /\ (legs[name].status = "absent" \/ name \in expired)
                       => ~fn_ret.pair[i].success

\* C15 witness: the text leg timed out and the snapshot leg's successful
\* result is in the pair returned.
C15_Witness ==
    /\ pc = "fetched"
    /\ "lynx" \in expired
    /\ fn_ret.pair[1] # legs["lynx"].out
    /\ fn_ret.pair[2] = PlaywrightOk

\* C16: a leg that had not completed when its wait expired is reported as a
\* failure result tagged timeout, and what the leg produces afterwards
\* appears neither in fetch's results nor in the pair it returns (the pair
\* navigate hands to merge).
C16_LateResultDiscarded ==
    \A i \in 1..2 :
        LET name == LegNames[i]
            Synthetic(r) == ~r.success /\ r.error = "Timeout"
                            /\ (name = "lynx" => r.text = <<>> /\ r.links = <<>>)
                            /\ (name = "playwright" => r.elements = <<>> /\ r.content = <<>>)
        IN name \in expired =>
              /\ name \in DOMAIN results /\ Synthetic(results[name])
              /\ pc = "fetched" => Synthetic(fn_ret.pair[i])

\* C16 witness: a leg timed out, completed successfully later, and fetch
\* returned.
C16_Witness ==
    /\ pc = "fetched"
    /\ \E name \in expired : legs[name].status = "done" /\ legs[name].out.success

\* C18 as claimed: an unplaced element of the ignore, navigation or
\* secondary bucket has no mapping entry and no marker in the merge output,
\* whatever the advisor answered.
C18_Original ==
    PipelineReturned =>
        \A idx \in InBucket("ignore") \cup InBucket("navigation") \cup InBucket("secondary") :
            Absent(idx)

\* C19 as claimed: once the unplaced elements are classified, whatever the
\* advisor answers and whether or not it is enabled, the merge returns and
\* every primary-bucket element has exactly one new mapping entry whose
\* marker stands on the last line of the text, behind that line's own text.
C19_Original ==
    (pc \in {"inject", "done", "raised"} /\ "categorize" \in stages
        /\ InBucket("primary") # {}) =>
        /\ pc # "raised"
        /\ pc = "done" =>
              LET in_lines  == SplitLines(lynx_result.text)
                  out_lines == SplitLines(result.text)
                  last      == out_lines[Len(out_lines)]
                  own       == Len(in_lines[Len(in_lines)])
              IN /\ Len(out_lines) = Len(in_lines)
                 /\ \A idx \in InBucket("primary") :
                       /\ Cardinality(NewEntriesFor(idx)) = 1
                       /\ \A n \in NewEntriesFor(idx) :
                             Cardinality({ i \in 1..Len(last) : last[i] = ToString(n) }) = 1
                             /\ \A i \in 1..Len(last) : last[i] = ToString(n) => i > own

\* The elements of kind link whose target is url, by position in the list.
LinksTo(elements, url) ==
    { i \in 1..Len(elements) : elements[i].type = "a" /\ elements[i].href = url }

\* C20: for each (number, url) pair of the text source, match_by_url maps
\* the number to the first element in extraction order that is a link with
\* exactly that url, with action navigate and the element's label (the url
\* when the label is empty); other kinds and other urls are never chosen,
\* and a number without such an element gets no entry.
C20_FirstLinkWithUrl ==
    pc = "matched" =>
        /\ DOMAIN fn_ret \subseteq { fn_args.links[k][1] : k \in 1..Len(fn_args.links) }
        /\ \A k \in 1..Len(fn_args.links) :
              LET num  == fn_args.links[k][1]
                  url  == fn_args.links[k][2]
                  hits == LinksTo(fn_args.elements, url)
              IN IF hits = {} THEN num \notin DOMAIN fn_ret
                 ELSE LET first == fn_args.elements[CHOOSE i \in hits : \A j \in hits : i <= j]
                      IN /\ num \in DOMAIN fn_ret
                         /\ fn_ret[num].number = num
                         /\ fn_ret[num].el = first.index
                         /\ fn_ret[num].selector = first.selector
                         /\ fn_ret[num].url = url
                         /\ fn_ret[num].action = "navigate"
                         /\ fn_ret[num].text = (IF first.text = "" THEN url ELSE first.text)

\* C20 witness: two links carry the url of a pair; the first of them, which
\* has no label, is the one mapped, under the url as its label.
C20_Witness ==
    /\ pc = "matched"
    /\ Len(fn_args.elements) >= 2
    /\ \E num \in DOMAIN fn_ret :
          /\ Cardinality(LinksTo(fn_args.elements, fn_ret[num].url)) >= 2
          /\ fn_ret[num].text = fn_ret[num].url

\* C21: the base mapping match_by_url returns holds a number if and only if
\* the text source listed that number with a url that is the target of some
\* link element; so its keys are numbers of the text source, and a number
\* whose url no link element has is left out.
C21_KeysAreMatchedNumbers ==
    pc = "matched" =>
        DOMAIN fn_ret =
            { fn_args.links[k][1] :
                k \in { j \in 1..Len(fn_args.links) :
                          \E i \in 1..Len(fn_args.elements) :
                              /\ fn_args.elements[i].type = "a"
                              /\ fn_args.elements[i].href = fn_args.links[j][2] } }

\* C21 witness: of two listed numbers one has a matching link element and is
\* in the mapping, the other has none (only a button carries its url, or no
\* element does) and is not.
C21_Witness ==
    /\ pc = "matched"
    /\ Len(fn_args.links) = 2
    /\ Cardinality(DOMAIN fn_ret) = 1
    /\ fn_args.elements # <<>>

\* C22: find_missing_elements returns, in extraction order, exactly the
\* elements that are visible, have a label or are inputs, and are a button,
\* input, textarea or select or else a link whose url no base-mapping entry
\* has; every other element is left out.
C22_ExactlyTheUnplaced ==
    pc = "found" =>
        LET urls == { fn_args.mapping[n].url : n \in DOMAIN fn_args.mapping }
            Unplaced(el) ==
                /\ el.visible
                /\ (el.text # "" \/ el.type = "input")
                /\ \/ el.type \in {"button", "input", "textarea", "select"}
                   \/ el.type = "a" /\ el.href \notin urls
        IN fn_ret = SelectSeq(fn_args.elements, Unplaced)

\* C22 witness: of two elements the first, a link whose url the base mapping
\* holds, is left out and the second is returned.
C22_Witness ==
    /\ pc = "found"
    /\ Len(fn_args.elements) = 2 /\ Len(fn_ret) = 1
    /\ fn_args.elements[1].type = "a"
    /\ \E n \in DOMAIN fn_args.mapping : fn_args.mapping[n].url = fn_args.elements[1].href
    /\ fn_ret[1] = fn_args.elements[2]

\* Some term of a list occurs in the selector or in the label of el, letter
\* case apart.
TermInEither(terms, el) ==
    \E x \in terms : Occurs(x, Lower(el.selector)) \/ Occurs(x, Lower(el.text))

\* C23 as claimed: categorize_elements gives each unplaced element the bucket
\* found by substring checks over both selector and label, in this order:
\* ad/tracking term -> ignore; nav/header/menu term -> navigation;
\* footer/copyright term -> secondary; else input/textarea/select ->
\* primary; else unknown.
C23_Original ==
    pc = "categorized" =>
        \A k \in 1..Len(fn_args.elements) :
            LET el == fn_args.elements[k]
            IN fn_ret[el.index] =
                 (IF TermInEither({"ad", "track", "analytics", "pixel"}, el) THEN "ignore"
                  ELSE IF TermInEither({"nav", "header", "menu"}, el) THEN "navigation"
                  ELSE IF TermInEither({"footer", "copyright"}, el) THEN "secondary"
                  ELSE IF el.type \in {"input", "textarea", "select"} THEN "primary"
                  ELSE "unknown")

\* C24: every mapping entry inject_elements creates has the action its
\* element's kind gives: link navigate, input and textarea fill, a button
\* whose label holds "submit" in any letter case submit, any other button
\* and every select click.
C24_ActionFromKind ==
    InjectReturned =>
        \A n \in DOMAIN fn_ret.mapping \ DOMAIN fn_args.base :
            LET element == ElementOf(fn_args.missing, fn_ret.mapping[n].el)
            IN fn_ret.mapping[n].action =
                 (CASE element.type = "a" -> "navigate"
                    [] element.type \in {"input", "textarea"} -> "fill"
                    [] element.type = "button" /\ Occurs("submit", Lower(element.text)) -> "submit"
                    [] element.type \in {"button", "select"} -> "click")

\* C24 witness: a button labelled "Submit" was placed and got submit, next to
\* an element of another kind.
C24_Witness ==
    /\ InjectReturned
    /\ \E n, m \in DOMAIN fn_ret.mapping \ DOMAIN fn_args.base :
          /\ fn_ret.mapping[n].action = "submit" /\ fn_ret.mapping[n].text = "Submit"
          /\ fn_ret.mapping[m].action = "fill"

\* C25: within one merge call the advisor is invoked at most once; when it
\* is invoked the merge is in the full pipeline, the advisor is enabled, the
\* unknown bucket is not empty and the input holds unknown-bucket elements
\* only; a merge that returned through the both-failed, the fallback or the
\* short-circuit path has not invoked it.
C25_AdvisorAtMostOnce ==
    /\ llm_calls <= 1
    /\ llm_calls = 1 =>
          /\ use_llm
          /\ lynx_result.success
          /\ "categorize" \in stages
          /\ InBucket("unknown") # {}
          /\ llm_in # <<>>
          /\ \A i \in 1..Len(llm_in) :
                /\ llm_in[i].index \in InBucket("unknown")
                /\ \E k \in 1..Len(missing) : missing[k] = llm_in[i]
    /\ (pc = "done" /\ "inject" \notin stages) => llm_calls = 0
    /\ llm_calls = 0 => llm_in = <<>>

\* C25 witness: a merge invoked the advisor once, with one of two unplaced
\* elements as its input, and went on to the injection.
C25_Witness ==
    /\ llm_calls = 1
    /\ pc = "done" /\ "inject" \in stages
    /\ Len(llm_in) = 1 /\ Len(missing) = 2

\* C26: the mapping inject_elements returns is the union of the base mapping
\* and the injected entries: every base entry stands under its number with
\* all fields as they were, the injected entries take numbers the base
\* mapping does not hold (one per placed element), and the base mapping
\* handed in is as it was.
C26_BaseKept ==
    InjectReturned =>
        /\ DOMAIN fn_args.base \subseteq DOMAIN fn_ret.mapping
        /\ \A n \in DOMAIN fn_args.base : fn_ret.mapping[n] = fn_args.base[n]
        /\ Cardinality(DOMAIN fn_ret.mapping \ DOMAIN fn_args.base)
              = Cardinality(PlacedIndices(fn_args.placements, fn_args.missing))
        /\ base_mapping = fn_args.base

\* C26 witness: a base mapping of two entries, two elements injected.
C26_Witness ==
    /\ InjectReturned
    /\ Cardinality(DOMAIN fn_args.base) = 2
    /\ Cardinality(DOMAIN fn_ret.mapping) = 4

\* The format template a placement set gives for index idx.
TemplateAskedFor(placement_set, idx) ==
    LET dec == placement_set[CHOOSE i \in 1..Len(placement_set) : placement_set[i].idx = idx].dec
    IN IF dec.format.given THEN dec.format.tmpl ELSE <<"[", "N", ":", "button", "]">>

\* A template with its placeholder, the first "N", replaced by a number and
\* every other chunk kept.
PlaceholderReplaced(tmpl, num) ==
    LET first == CHOOSE i \in 1..Len(tmpl) :
                     tmpl[i] = "N" /\ \A j \in 1..(i - 1) : tmpl[j] # "N"
    IN [i \in 1..Len(tmpl) |-> IF i = first THEN ToString(num) ELSE tmpl[i]]

\* A run of chunks stands in a text.
StandsIn(run, text) ==
    \E at \in 0..(Len(text) - Len(run)) : SubSeq(text, at + 1, at + Len(run)) = run

\* C28 as claimed: the marker of a placed element is its template with the
\* placeholder "N" replaced by the assigned number and every other part kept
\* verbatim, also for a template whose label holds the letter N.
C28_Original ==
    InjectReturned =>
        \A n \in DOMAIN fn_ret.mapping \ DOMAIN fn_args.base :
            StandsIn(PlaceholderReplaced(
                         TemplateAskedFor(fn_args.placements, fn_ret.mapping[n].el), n),
                     fn_ret.text)

\* The injected entries of the mapping inject_elements returned.
InjectedNumbers == DOMAIN fn_ret.mapping \ DOMAIN fn_args.base

\* The marker of the injected entry n, as inject_elements builds it.
MarkerOf(n) == Marker(TemplateAskedFor(fn_args.placements, fn_ret.mapping[n].el), n)

\* The injected entry n was asked to stand before its line.
AskedBefore(n) ==
    \E i \in 1..Len(fn_args.placements) :
        /\ fn_args.placements[i].idx = fn_ret.mapping[n].el
        /\ fn_args.placements[i].dec.position = "before"

\* The injected entries whose number stands in a line.
NumbersOn(line) == { n \in InjectedNumbers : \E i \in 1..Len(line) : line[i] = ToString(n) }

\* The chunks the markers of a set of entries take, a blank with each.
RECURSIVE MarkerRoom(_)
MarkerRoom(S) ==
    IF S = {} THEN 0
    ELSE LET n == CHOOSE x \in S : TRUE
         IN Len(MarkerOf(n)) + 1 + MarkerRoom(S \ {n})

\* C27: injection only extends existing lines: the output has as many lines
\* as the input; each placed element's marker stands on one line only (for a
\* requested line of 0 or more: line min(line, last-line-index)); a line is
\* its input line with the markers asked "before" in front, each followed
\* by one blank, and the other markers behind, each preceded by one blank;
\* so a line that got no marker is unchanged.
C27_LinesOnlyExtended ==
    InjectReturned =>
        LET in_lines  == SplitLines(fn_args.text)
            out_lines == SplitLines(fn_ret.text)
        IN /\ Len(out_lines) = Len(in_lines)
           /\ \A n \in InjectedNumbers :
                 /\ Cardinality({ i \in 1..Len(out_lines) : n \in NumbersOn(out_lines[i]) }) = 1
                 /\ LET asked == LineAskedFor(fn_args.placements, fn_ret.mapping[n].el)
                    IN asked >= 0 =>
                         n \in NumbersOn(out_lines[Min2(asked, Len(in_lines) - 1) + 1])
           /\ \A i \in 1..Len(in_lines) :
                 LET front  == { n \in NumbersOn(out_lines[i]) : AskedBefore(n) }
                     behind == NumbersOn(out_lines[i]) \ front
                     pre    == MarkerRoom(front)
                     own    == Len(in_lines[i])
                 IN /\ Len(out_lines[i]) = pre + own + MarkerRoom(behind)
                    /\ SubSeq(out_lines[i], pre + 1, pre + own) = in_lines[i]
                    /\ \A n \in front :
                          StandsIn(MarkerOf(n) \o <<" ">>, SubSeq(out_lines[i], 1, pre))
                    /\ \A n \in behind :
                          StandsIn(<<" ">> \o MarkerOf(n),
                                   SubSeq(out_lines[i], pre + own + 1, Len(out_lines[i])))

\* C27 witness: on a text of two lines one marker was put before and one
\* behind the first line, and the second line is as it was.
C27_Witness ==
    /\ InjectReturned
    /\ Len(SplitLines(fn_args.text)) = 2
    /\ LET first == SplitLines(fn_ret.text)[1]
       IN \E n, m \in NumbersOn(first) : AskedBefore(n) /\ ~AskedBefore(m)
    /\ SplitLines(fn_ret.text)[2] = SplitLines(fn_args.text)[2]

\* The command loop has shown a loaded page.
PageLoaded == Len(history) > 0

\* The last command was a forward typed directly after a back that loaded
\* its page.
ForwardAfterBack ==
    /\ trail[1].cmd = "back"
    /\ trail[1].said = "none"
    /\ trail[1].success
    /\ trail[2].cmd = "forward"

\* C29 (as stated): a forward typed directly after a back that loaded its
\* page navigates to the page that was shown before the back, it does not
\* report that there is no next page; and once a page has loaded
\* history_index is within 0..len(history)-1.
C29_Original ==
    /\ ForwardAfterBack =>
          /\ trail[2].said # "no next page"
          /\ trail[2].url = trail[1].was
    /\ PageLoaded => history_index \in 0..(Len(history) - 1)

\* C30 (as stated): broadcast_message always completes and releases
\* sse_lock: a call that holds the lock returns in the end, whatever the
\* stream clients do, one with a full queue that stopped consuming included.
C30_Original ==
    \A p \in Posters : (sse_lock = p) ~> (chat_pc[p] = "idle" /\ sse_lock # p)

====
